---- MODULE Spec2Model ----
(***************************************************************************)
(* MaidSafe-Drive: the directory tree manager (DirectoryListingHandler)    *)
(* and the drive API on top of it (DriveInUserSpace), over a key -> blob   *)
(* store.  Directory listings are stored as envelopes keyed by their       *)
(* DirectoryId and encrypted under (parent_id, directory_id); file content *)
(* is stored as chunks keyed by the fingerprints of the file's DataMap.    *)
(***************************************************************************)
EXTENDS Integers, Sequences, FiniteSets, TLC

\* ---------------------------------------------------------------- bounds
\* Longest path, in components below "/", an operation is called with.
MaxDepth == 2
\* Number of DirectoryIds MetaData(name, true) can draw for new directories.
MaxDirs == 2
\* Number of file entries the callers keep in the stored listings at one time.
MaxFiles == 2

\* ------------------------------------------------------------- constants
\* Identity(RandomString(64)) drawn twice by the first-run constructor, and
\* the id MetaData(relative_root_, true) draws for the root directory.
unique_user_id_ == 1
root_parent_id_ == 2
kRootDirectoryId == 3
\* st_size of a directory parsed on POSIX.
kDirectorySize == 4096

relative_root_ == "/"

Names == {"a", "b"}
\* Content a caller can give a file, with the DataMap the self-encryptor makes
\* of it: a small file is held in the DataMap's content, a large one is cut
\* into chunks named by their fingerprints.
FileContents ==
  {[data_map |-> [chunks |-> {}, content |-> "small"], size |-> 3],
   [data_map |-> [chunks |-> {1}, content |-> ""], size |-> 10]}
\* What the caller's reclaimed_space variable holds before RenameFile: 0, or
\* a value left in it that no entry of the model has as its size.
ReclaimedBefore == {0, 7}

NewDirectoryIds == (kRootDirectoryId + 1)..(kRootDirectoryId + MaxDirs)

VARIABLES
  store,    \* data_store_: DirectoryId -> OwnerDirectory envelope (partial function)
  chunks,   \* data_store_: the chunk keys present
  posix,    \* TRUE: built without MAIDSAFE_WIN32
  last,     \* the last public call and what it returned to its caller
  packets,  \* data_store_: the MID and TMID packets, by name (partial function)
  handler,  \* the DirectoryListingHandler's fields, <<>> while none is constructed
  contexts, \* the host's file_info handles: UserContext, <<>> for nullptr
  drive,    \* the drive's drive_stage_ and its callback_filesystem_
  threads   \* the position and the locals of each thread inside a public call

vars == <<store, chunks, posix, last, packets, handler, contexts, drive, threads>>

\* ----------------------------------------------------------------- paths
Below(k) == UNION {[1..n -> Names] : n \in 0..k}
\* boost::filesystem paths "/", "/a", "/a/b", ...; <<>> is the empty path.
PathsTo(k) == {<<relative_root_>> \o s : s \in Below(k)}
Paths == PathsTo(MaxDepth)

parent_path(p) == IF Len(p) = 0 THEN <<>> ELSE SubSeq(p, 1, Len(p) - 1)
filename(p) == IF Len(p) = 0 THEN "" ELSE p[Len(p)]

\* ------------------------------------------------------------- MetaData
\* boost::ilexicographical_compare orders names without regard to case.
Lower(n) == IF n = "A" THEN "a" ELSE IF n = "B" THEN "b" ELSE n
NameLess(n1, n2) == Lower(n1) # Lower(n2)
SameName(n1, n2) == ~NameLess(n1, n2)

\* MetaData(name, is_directory) with the content the caller attaches; the
\* optional data_map / directory_id are sequences of length 0 or 1.
FileMeta(name, content) ==
  [name |-> name, size |-> content.size, alloc |-> IF posix THEN 0 ELSE content.size,
   data_map |-> <<content.data_map>>, directory_id |-> <<>>, notes |-> <<>>]
DirectoryMeta(name, id) ==
  [name |-> name, size |-> IF posix THEN kDirectorySize ELSE 0, alloc |-> 0,
   data_map |-> <<>>, directory_id |-> <<id>>, notes |-> <<>>]

IsDirectory(meta_data) == meta_data.directory_id # <<>>

GetAllocatedSize(meta_data) == IF posix THEN meta_data.size ELSE meta_data.alloc

\* MetaData::Serialise: the protobuf carries name, st_size, one of
\* serialised_data_map / directory_id, and the notes in their order.
Serialise(meta_data) ==
  [name |-> meta_data.name, st_size |-> meta_data.size,
   data_map |-> meta_data.data_map, directory_id |-> meta_data.directory_id,
   notes |-> meta_data.notes]

\* MetaData(serialised_meta_data)
Parse(pb) ==
  LET dir == pb.directory_id # <<>>
      eof == IF dir THEN (IF posix THEN kDirectorySize ELSE 0) ELSE pb.st_size
  IN [name |-> pb.name, size |-> eof, alloc |-> IF posix THEN 0 ELSE eof,
      data_map |-> pb.data_map, directory_id |-> pb.directory_id, notes |-> pb.notes]

\* MetaData(serialised_meta_data) accepting a protobuf with both
\* serialised_data_map and directory_id.
MetaDataParseDataMapFirst(pb) ==
  IF pb.data_map # <<>> \/ pb.directory_id # <<>>
  THEN [ok |-> TRUE, meta_data |-> Parse([pb EXCEPT !.directory_id =
                                                    IF pb.data_map # <<>> THEN <<>> ELSE @])]
  ELSE [ok |-> FALSE, err |-> "invalid_parameter"]

\* MetaData(serialised_meta_data) with its exceptions: the member name is
\* empty when the constructor begins, and the model's protobufs are well
\* formed, so only the last block throws.
MetaDataParse(pb) ==
  IF pb.data_map # <<>>
  THEN IF pb.directory_id # <<>> THEN [ok |-> FALSE, err |-> "parsing_error"]
       ELSE [ok |-> TRUE, meta_data |-> Parse(pb)]
  ELSE IF pb.directory_id # <<>> THEN [ok |-> TRUE, meta_data |-> Parse(pb)]
  ELSE [ok |-> FALSE, err |-> "invalid_parameter"]

\* ------------------------------------------------------ DirectoryListing
\* The ordered container of children of one directory, keyed by name.
NewListing(directory_id) == [directory_id |-> directory_id, children |-> {}]

HasChild(listing, name) == \E c \in listing.children : SameName(c.name, name)
\* GetChild: the caller has checked HasChild, else it throws no_such_file.
GetChild(listing, name) == CHOOSE c \in listing.children : SameName(c.name, name)
\* AddChild: the caller has checked ~HasChild, else it throws file_exists.
AddChild(listing, child) == [listing EXCEPT !.children = @ \cup {child}]
\* RemoveChild: the caller has checked HasChild, else it throws no_such_file.
RemoveChild(listing, child) ==
  [listing EXCEPT !.children = {c \in @ : ~SameName(c.name, child.name)}]
UpdateChild(listing, child) == AddChild(RemoveChild(listing, child), child)
empty(listing) == listing.children = {}

SerialiseListing(listing) ==
  [directory_id |-> listing.directory_id,
   children |-> {Serialise(c) : c \in listing.children}]
ParseListing(bytes) ==
  [directory_id |-> bytes.directory_id,
   children |-> {Parse(c) : c \in bytes.children}]

\* ------------------------------------------------------------ data store
\* A data store as the handler sees it: env is the envelope under each
\* DirectoryId, chunks the chunk keys present, log the Put and Delete calls
\* made on it since the public call at hand began, in their order.
Put(ds, key, blob) ==
  [ds EXCEPT !.env = [k \in (DOMAIN @) \cup {key} |-> IF k = key THEN blob ELSE @[k]],
             !.log = Append(@, [op |-> "Put", key |-> key, blob |-> <<blob>>])]
Delete(ds, key) ==
  [ds EXCEPT !.env = [k \in (DOMAIN @) \ {key} |-> @[k]],
             !.log = Append(@, [op |-> "Delete", key |-> key, blob |-> <<>>])]
Has(ds, key) == key \in DOMAIN ds.env
\* SelfEncryptor(data_map, store).DeleteAllChunks()
DeleteAllChunks(ds, data_map_chunks) == [ds EXCEPT !.chunks = @ \ data_map_chunks]

\* An exception leaving a call: what is in the store stays as it is then.
Throw(err, ds) == [ok |-> FALSE, err |-> err, ds |-> ds]

\* encrypt::DecryptDataMap(parent_id, directory_id, ...) succeeds only under
\* the ids the DataMap was encrypted with.
Decrypts(envelope, parent_id, directory_id) ==
  envelope.parent_id = parent_id /\ envelope.directory_id = directory_id

\* RetrieveFromStorage that returns the directory's own id as its parent_id.
RetrieveFromStorageOwnId(ds, parent_id, directory_id) ==
  IF ~Has(ds, directory_id) THEN Throw("not_found", ds)
  ELSE IF ~Decrypts(ds.env[directory_id], parent_id, directory_id)
  THEN Throw("decryption_error", ds)
  ELSE [ok |-> TRUE,
        dir |-> [parent_id |-> directory_id,
                 listing |-> ParseListing(ds.env[directory_id].data_map.content)]]

RetrieveFromStorage(ds, parent_id, directory_id) ==
  IF ~Has(ds, directory_id) THEN Throw("not_found", ds)
  ELSE IF ~Decrypts(ds.env[directory_id], parent_id, directory_id)
  THEN Throw("decryption_error", ds)
  ELSE [ok |-> TRUE,
        dir |-> [parent_id |-> parent_id,
                 listing |-> ParseListing(ds.env[directory_id].data_map.content)]]

\* The serialised listings of the model are below the size at which the
\* self-encryptor starts to cut chunks: the DataMap holds them as content.
PutToStorage(ds, directory) ==
  Put(ds, directory.listing.directory_id,
      [parent_id |-> directory.parent_id,
       directory_id |-> directory.listing.directory_id,
       data_map |-> [chunks |-> {}, content |-> SerialiseListing(directory.listing)]])

\* DeleteStored: its callers have loaded the directory under these ids
\* before, so RetrieveDataMap does not throw here.
DeleteStored(ds, parent_id, directory_id) ==
  Delete(DeleteAllChunks(ds, ds.env[directory_id].data_map.chunks), directory_id)

\* ------------------------------------------------ DirectoryListingHandler
\* A value a handler computes once and then uses several times is handed on
\* as the last parameter of the operator that uses it.
\* The name GetFromPath looks up at step i: relative_root_ first, then the
\* components of the path.
Component(relative_path, i) == IF i = 1 THEN relative_root_ ELSE relative_path[i]

RECURSIVE Walk(_, _, _, _)
Walk(ds, directory, relative_path, i) ==
  IF ~directory.ok \/ i > Len(relative_path) THEN directory
  ELSE IF ~HasChild(directory.dir.listing, Component(relative_path, i))
  THEN Throw("not_found", ds)
  ELSE IF ~IsDirectory(GetChild(directory.dir.listing, Component(relative_path, i)))
  THEN Throw("invalid_parameter", ds)
  ELSE Walk(ds,
            RetrieveFromStorage(
              ds, directory.dir.listing.directory_id,
              GetChild(directory.dir.listing, Component(relative_path, i)).directory_id[1]),
            relative_path, i + 1)

GetFromPath(ds, relative_path) ==
  Walk(ds, RetrieveFromStorage(ds, handler[1].unique_user_id_, handler[1].root_parent_id_),
       relative_path, 1)

ParentAndGrandparent(grandparent, parent_meta_data, parent) ==
  IF ~parent.ok THEN parent
  ELSE [ok |-> TRUE, grandparent |-> grandparent.dir, parent |-> parent.dir,
        parent_meta_data |-> parent_meta_data]

GetParentOf(ds, relative_path, grandparent) ==
  IF ~grandparent.ok THEN grandparent
  ELSE IF ~HasChild(grandparent.dir.listing, filename(parent_path(relative_path)))
  THEN Throw("not_found", ds)
  ELSE IF ~IsDirectory(GetChild(grandparent.dir.listing,
                                filename(parent_path(relative_path))))
  THEN Throw("invalid_parameter", ds)
  ELSE ParentAndGrandparent(
         grandparent,
         GetChild(grandparent.dir.listing, filename(parent_path(relative_path))),
         GetFromPath(ds, parent_path(relative_path)))

GetParentAndGrandparent(ds, relative_path) ==
  GetParentOf(ds, relative_path, GetFromPath(ds, parent_path(parent_path(relative_path))))

GetChildOf(ds, relative_path, parent) ==
  IF ~parent.ok THEN parent
  ELSE IF ~HasChild(parent.dir.listing, filename(relative_path))
  THEN Throw("not_found", ds)
  ELSE [ok |-> TRUE,
        meta_data |-> GetChild(parent.dir.listing, filename(relative_path)),
        grandparent_directory_id |-> parent.dir.parent_id,
        parent_directory_id |-> parent.dir.listing.directory_id]

\* DriveInUserSpace::GetMetaData
GetMetaData(ds, relative_path) ==
  GetChildOf(ds, relative_path, GetFromPath(ds, parent_path(relative_path)))

\* AddElementTo with an AddChild that takes a name the listing has.
AddElementToAnyName(ds, meta_data, pg) ==
  IF ~pg.ok THEN pg
  ELSE LET parent == [pg.parent EXCEPT !.listing = AddChild(@, meta_data)]
           ds1 == IF IsDirectory(meta_data)
                  THEN PutToStorage(ds, [parent_id |-> parent.listing.directory_id,
                                         listing |-> NewListing(meta_data.directory_id[1])])
                  ELSE ds
           grandparent == [pg.grandparent EXCEPT
                             !.listing = UpdateChild(@, pg.parent_meta_data)]
       IN [ok |-> TRUE, ds |-> PutToStorage(PutToStorage(ds1, parent), grandparent),
           grandparent_id |-> grandparent.listing.directory_id,
           parent_id |-> parent.listing.directory_id]

AddElementTo(ds, meta_data, pg) ==
  IF ~pg.ok THEN pg
  ELSE IF HasChild(pg.parent.listing, meta_data.name) THEN Throw("file_exists", ds)
  ELSE LET parent == [pg.parent EXCEPT !.listing = AddChild(@, meta_data)]
           ds1 == IF IsDirectory(meta_data)
                  THEN PutToStorage(ds, [parent_id |-> parent.listing.directory_id,
                                         listing |-> NewListing(meta_data.directory_id[1])])
                  ELSE ds
           grandparent == [pg.grandparent EXCEPT
                             !.listing = UpdateChild(@, pg.parent_meta_data)]
       IN [ok |-> TRUE, ds |-> PutToStorage(PutToStorage(ds1, parent), grandparent),
           grandparent_id |-> grandparent.listing.directory_id,
           parent_id |-> parent.listing.directory_id]

\* AddElement that adds the child in memory and stores nothing.
AddElementNotStored(ds, relative_path, meta_data) ==
  [AddElementTo(ds, meta_data, GetParentAndGrandparent(ds, relative_path))
     EXCEPT !.ds = ds]

AddElement(ds, relative_path, meta_data) ==
  AddElementTo(ds, meta_data, GetParentAndGrandparent(ds, relative_path))

\* UpdateChild inside try { } catch(...) { /*Non-critical*/ }.  In the rename
\* blocks of the build without MAIDSAFE_WIN32 the source writes the
\* grandparent as grandparent.first.listing, read here as grandparent.listing.
UpdateChildNonCritical(listing, child) ==
  IF HasChild(listing, child.name) THEN UpdateChild(listing, child) ELSE listing

DeleteChild(ds, pg, meta_data, directory) ==
  IF IsDirectory(meta_data) /\ ~directory.ok THEN directory
  ELSE LET ds1 == IF IsDirectory(meta_data)
                  THEN DeleteStored(ds, pg.parent.listing.directory_id,
                                    meta_data.directory_id[1])
                  ELSE ds
           parent == [pg.parent EXCEPT !.listing = RemoveChild(@, meta_data)]
           grandparent == [pg.grandparent EXCEPT
                             !.listing = UpdateChildNonCritical(@, pg.parent_meta_data)]
       IN [ok |-> TRUE,
           ds |-> IF posix THEN PutToStorage(PutToStorage(ds1, grandparent), parent)
                  ELSE PutToStorage(ds1, parent),
           meta_data |-> meta_data]

\* DeleteElementFrom that stores the parent's listing before it looks for
\* the child.
DeleteElementFromStoredFirst(ds, relative_path, pg) ==
  IF ~pg.ok THEN pg
  ELSE IF ~HasChild(pg.parent.listing, filename(relative_path))
  THEN Throw("not_found", PutToStorage(ds, pg.parent))
  ELSE DeleteChild(ds, pg, GetChild(pg.parent.listing, filename(relative_path)),
                   GetFromPath(ds, relative_path))

DeleteElementFrom(ds, relative_path, pg) ==
  IF ~pg.ok THEN pg
  ELSE IF ~HasChild(pg.parent.listing, filename(relative_path))
  THEN Throw("not_found", ds)
  ELSE DeleteChild(ds, pg, GetChild(pg.parent.listing, filename(relative_path)),
                   GetFromPath(ds, relative_path))

\* DeleteElement that removes the child in memory and stores nothing.
DeleteElementNotStored(ds, relative_path) ==
  [DeleteElementFrom(ds, relative_path, GetParentAndGrandparent(ds, relative_path))
     EXCEPT !.ds = ds]

DeleteElement(ds, relative_path) ==
  DeleteElementFrom(ds, relative_path, GetParentAndGrandparent(ds, relative_path))

DeleteChunksOf(deleted) ==
  IF ~deleted.ok THEN deleted
  ELSE IF deleted.meta_data.data_map # <<>> /\ deleted.meta_data.directory_id = <<>>
  THEN [deleted EXCEPT !.ds = DeleteAllChunks(@, deleted.meta_data.data_map[1].chunks)]
  ELSE deleted

\* DriveInUserSpace::RemoveFile
RemoveFile(ds, relative_path) == DeleteChunksOf(DeleteElement(ds, relative_path))

Renamed(meta_data, new_relative_path) ==
  [meta_data EXCEPT !.name = filename(new_relative_path)]

\* What a rename hands back: the store, the caller's meta_data and the
\* caller's reclaimed_space, also when it throws.
RenameThrow(err, ds, meta_data, reclaimed_space) ==
  [ok |-> FALSE, err |-> err, ds |-> ds, meta_data |-> meta_data,
   reclaimed_space |-> reclaimed_space]
RenameReturn(ds, meta_data, reclaimed_space) ==
  [ok |-> TRUE, ds |-> ds, meta_data |-> meta_data, reclaimed_space |-> reclaimed_space]

RenameInParent(ds, new_relative_path, meta_data, reclaimed_space, pg) ==
  IF ~pg.ok THEN RenameThrow(pg.err, ds, meta_data, reclaimed_space)
  ELSE
    LET new_name == filename(new_relative_path)
        without_target == IF HasChild(pg.parent.listing, new_name)
                          THEN RemoveChild(pg.parent.listing,
                                           GetChild(pg.parent.listing, new_name))
                          ELSE pg.parent.listing
        reclaimed == IF HasChild(pg.parent.listing, new_name)
                     THEN GetAllocatedSize(GetChild(pg.parent.listing, new_name))
                     ELSE reclaimed_space
        renamed == Renamed(meta_data, new_relative_path)
        parent == [pg.parent EXCEPT
                     !.listing = AddChild(RemoveChild(without_target, meta_data), renamed)]
        grandparent == [pg.grandparent EXCEPT
                          !.listing = UpdateChildNonCritical(@, pg.parent_meta_data)]
    IN IF ~HasChild(without_target, meta_data.name)
       THEN RenameThrow("not_found", ds, meta_data, reclaimed)
       ELSE RenameReturn(IF posix
                         THEN PutToStorage(PutToStorage(ds, parent), grandparent)
                         ELSE PutToStorage(ds, parent),
                         renamed, reclaimed)

\* RenameSameParent that does not set reclaimed_space.
RenameSameParentNothingReclaimed(ds, old_relative_path, new_relative_path, meta_data, reclaimed_space) ==
  [RenameInParent(ds, new_relative_path, meta_data, reclaimed_space,
                  GetParentAndGrandparent(ds, old_relative_path))
     EXCEPT !.reclaimed_space = reclaimed_space]

RenameSameParent(ds, old_relative_path, new_relative_path, meta_data, reclaimed_space) ==
  RenameInParent(ds, new_relative_path, meta_data, reclaimed_space,
                 GetParentAndGrandparent(ds, old_relative_path))

\* The directory a rename moves, stored again under its DirectoryId with the
\* new parent's id.
Reparented(ds, directory, new_parent_id) ==
  PutToStorage(DeleteStored(ds, directory.dir.parent_id, directory.dir.listing.directory_id),
               [directory.dir EXCEPT !.parent_id = new_parent_id])

RenameBetweenParents(ds, new_relative_path, meta_data, reclaimed_space, opg, npg, directory) ==
  IF ~opg.ok THEN RenameThrow(opg.err, ds, meta_data, reclaimed_space)
  ELSE IF ~npg.ok THEN RenameThrow(npg.err, ds, meta_data, reclaimed_space)
  ELSE IF IsDirectory(meta_data) /\ ~directory.ok
  THEN RenameThrow(directory.err, ds, meta_data, reclaimed_space)
  ELSE
    LET new_name == filename(new_relative_path)
        ds1 == IF IsDirectory(meta_data)
               THEN Reparented(ds, directory, npg.parent.listing.directory_id)
               ELSE ds
        old_parent == [opg.parent EXCEPT !.listing = RemoveChild(@, meta_data)]
        renamed == Renamed(meta_data, new_relative_path)
        new_parent ==
          [npg.parent EXCEPT
             !.listing = IF HasChild(@, new_name)
                         THEN AddChild(RemoveChild(@, GetChild(@, new_name)), renamed)
                         ELSE AddChild(@, renamed)]
        reclaimed == IF HasChild(npg.parent.listing, new_name)
                     THEN GetAllocatedSize(GetChild(npg.parent.listing, new_name))
                     ELSE reclaimed_space
        old_grandparent ==
          [opg.grandparent EXCEPT
             !.listing = UpdateChildNonCritical(@, opg.parent_meta_data)]
        stored == PutToStorage(PutToStorage(ds1, old_parent), new_parent)
    IN IF ~HasChild(opg.parent.listing, meta_data.name)
       THEN RenameThrow("not_found", ds1, meta_data, reclaimed_space)
       ELSE RenameReturn(IF posix THEN PutToStorage(stored, old_grandparent) ELSE stored,
                         renamed, reclaimed)

RenameDifferentParent(ds, old_relative_path, new_relative_path, meta_data, reclaimed_space) ==
  RenameBetweenParents(ds, new_relative_path, meta_data, reclaimed_space,
                       GetParentAndGrandparent(ds, old_relative_path),
                       GetParentAndGrandparent(ds, new_relative_path),
                       GetFromPath(ds, old_relative_path))

\* RenameElement that takes every rename for one inside the old parent.
RenameElementInOldParent(ds, old_relative_path, new_relative_path, meta_data, reclaimed_space) ==
  IF old_relative_path = new_relative_path
  THEN RenameReturn(ds, meta_data, reclaimed_space)
  ELSE RenameSameParent(ds, old_relative_path, new_relative_path, meta_data,
                        reclaimed_space)

RenameElement(ds, old_relative_path, new_relative_path, meta_data, reclaimed_space) ==
  IF old_relative_path = new_relative_path
  THEN RenameReturn(ds, meta_data, reclaimed_space)
  ELSE IF parent_path(old_relative_path) = parent_path(new_relative_path)
  THEN RenameSameParent(ds, old_relative_path, new_relative_path, meta_data, reclaimed_space)
  ELSE RenameDifferentParent(ds, old_relative_path, new_relative_path, meta_data,
                             reclaimed_space)

\* DriveInUserSpace::RenameFile
RenameFile(ds, old_relative_path, new_relative_path, meta_data, reclaimed_space) ==
  RenameElement(ds, old_relative_path, new_relative_path, meta_data, reclaimed_space)

\* DriveInUserSpace::AddFile
AddFile(ds, relative_path, meta_data) == AddElement(ds, relative_path, meta_data)

\* UpdateChild(meta_data, true) throws when the listing has no such child.
UpdateParentIn(ds, meta_data, parent) ==
  IF ~parent.ok THEN parent
  ELSE IF ~HasChild(parent.dir.listing, meta_data.name) THEN Throw("invalid_parameter", ds)
  ELSE [ok |-> TRUE,
        ds |-> PutToStorage(ds, [parent.dir EXCEPT !.listing = UpdateChild(@, meta_data)])]

UpdateParentDirectoryListing(ds, parent_path_, meta_data) ==
  UpdateParentIn(ds, meta_data, GetFromPath(ds, parent_path_))

\* DriveInUserSpace::UpdateParent
UpdateParent(ds, meta_data, parent_path_) ==
  UpdateParentDirectoryListing(ds, parent_path_, meta_data)

\* DriveInUserSpace::GetNotes
GetNotes(ds, relative_path) ==
  IF relative_path = <<>> THEN Throw("invalid_parameter", ds)
  ELSE IF ~GetMetaData(ds, relative_path).ok THEN GetMetaData(ds, relative_path)
  ELSE [ok |-> TRUE, notes |-> GetMetaData(ds, relative_path).meta_data.notes]

\* AddNote that puts the note in front of the others.
AddNoteInFront(ds, relative_path, note) ==
  IF relative_path = <<>> THEN Throw("invalid_parameter", ds)
  ELSE IF ~GetMetaData(ds, relative_path).ok THEN GetMetaData(ds, relative_path)
  ELSE UpdateParent(ds, [GetMetaData(ds, relative_path).meta_data
                           EXCEPT !.notes = <<note>> \o @],
                    parent_path(relative_path))

\* DriveInUserSpace::AddNote
AddNote(ds, relative_path, note) ==
  IF relative_path = <<>> THEN Throw("invalid_parameter", ds)
  ELSE IF ~GetMetaData(ds, relative_path).ok THEN GetMetaData(ds, relative_path)
  ELSE UpdateParent(ds, [GetMetaData(ds, relative_path).meta_data
                           EXCEPT !.notes = Append(@, note)],
                    parent_path(relative_path))

\* ----------------------------------------------------------- file handles
\* A FileContext, with the name the host keeps in the file_info.
\* self_encryptor is TRUE when the pointer is set.
FileContext(file_name, meta_data, self_encryptor, content_changed) ==
  [file_name |-> file_name, meta_data |-> meta_data, self_encryptor |-> self_encryptor,
   content_changed |-> content_changed]

\* MetaData(name, false) has a new, empty DataMap.
EmptyContent == [data_map |-> [chunks |-> {}, content |-> ""], size |-> 0]

\* GetFileContext: the entry of the path, in a context that has no
\* encryptor and is not changed.
FileContextOf(relative_path, found) ==
  IF ~found.ok THEN found
  ELSE [ok |-> TRUE, context |-> FileContext(relative_path, found.meta_data, FALSE, FALSE)]
GetFileContext(ds, relative_path) ==
  FileContextOf(relative_path, GetMetaData(ds, relative_path))

\* The context CbFsCreateFile hands to the host: FileContext(name,
\* is_directory), and an encryptor if it is a file.
CreatedContext(relative_path, meta_data) ==
  FileContext(relative_path, meta_data, ~IsDirectory(meta_data), ~IsDirectory(meta_data))

\* The context CbFsOpenFile hands to the host: an encryptor if it is a file.
OpenedContext(context) ==
  [context EXCEPT !.self_encryptor = ~IsDirectory(context.meta_data)]

\* encrypt::SerialiseDataMap and encrypt::ParseDataMap: the bytes of a
\* DataMap, and the DataMap of such bytes.
SerialiseDataMap(data_map) == <<"DataMap", data_map.content, data_map.chunks>>
ParseDataMap(serialised_data_map) ==
  [chunks |-> serialised_data_map[3], content |-> serialised_data_map[2]]

\* What dereferencing the null self_encryptor can come to: the process is
\* aborted (the assert, or the access violation), or size() reads some value.
Undefined == {[abort |-> TRUE, size |-> 0], [abort |-> FALSE, size |-> 7]}

\* SetNewAttributes of the POSIX drive: new timestamps, which the model's
\* MetaData does not carry.
SetNewAttributesPosix(context) == [ok |-> TRUE, context |-> context]

\* CbfsDriveInUserSpace::SetNewAttributes: the sizes of a file are those its
\* self_encryptor tells, which in the model are the sizes of the content
\* the MetaData was made with; without a self_encryptor the behaviour is
\* undefined.
SetNewAttributes(context, is_directory, undefined) ==
  IF posix THEN SetNewAttributesPosix(context)
  ELSE IF is_directory \/ context.self_encryptor THEN [ok |-> TRUE, context |-> context]
  ELSE IF undefined.abort THEN [ok |-> FALSE, err |-> "aborted"]
  ELSE [ok |-> TRUE,
        context |-> [context EXCEPT !.meta_data.size = undefined.size,
                                    !.meta_data.alloc = undefined.size]]

\* DriveInUserSpace::ReadDataMap
ReadDataMap(ds, relative_path) ==
  IF relative_path = <<>> THEN Throw("invalid_parameter", ds)
  ELSE IF ~GetMetaData(ds, relative_path).ok THEN GetMetaData(ds, relative_path)
  ELSE IF GetMetaData(ds, relative_path).meta_data.data_map = <<>>
  THEN Throw("invalid_parameter", ds)
  ELSE [ok |-> TRUE, ds |-> ds,
        serialised_data_map |->
          SerialiseDataMap(GetMetaData(ds, relative_path).meta_data.data_map[1])]

\* DriveInUserSpace::GetDataMap
GetDataMap(ds, relative_path) == ReadDataMap(ds, relative_path)

\* InsertDataMap after SetNewAttributes.
InsertDataMapOf(ds, relative_path, attributes) ==
  IF ~attributes.ok THEN [ok |-> FALSE, err |-> attributes.err, ds |-> ds]
  ELSE AddFile(ds, relative_path, attributes.context.meta_data)

\* DriveInUserSpace::InsertDataMap
InsertDataMap(ds, relative_path, serialised_data_map, undefined) ==
  IF relative_path = <<>> THEN Throw("invalid_parameter", ds)
  ELSE InsertDataMapOf(
         ds, relative_path,
         SetNewAttributes(
           FileContext(filename(relative_path),
                       FileMeta(filename(relative_path),
                                [EmptyContent EXCEPT
                                   !.data_map = ParseDataMap(serialised_data_map)]),
                       FALSE, TRUE),
           FALSE, undefined))

\* self_encryptor->Flush() returning true: the chunks of the DataMap are in
\* the store.
Flush(ds, context) ==
  [ds EXCEPT !.chunks = @ \cup context.meta_data.data_map[1].chunks]

\* What CbFsCloseFile does after a successful Flush.
CloseFlushed(ds, context) ==
  IF ~context.content_changed THEN [ok |-> TRUE, ds |-> ds]
  ELSE IF UpdateParent(ds, context.meta_data, parent_path(context.file_name)).ok
  THEN UpdateParent(ds, context.meta_data, parent_path(context.file_name))
  ELSE Throw("ERROR_ERRORS_ENCOUNTERED", ds)

\* CbFsFlushFile on a handle whose context has an encryptor: flush is what
\* Flush() returns.  UpdateParent is given the path of the file itself.
FlushUserContext(ds, context, flush) ==
  IF ~flush THEN [ok |-> TRUE, ds |-> ds]
  ELSE IF ~context.content_changed THEN [ok |-> TRUE, ds |-> Flush(ds, context)]
  ELSE IF UpdateParent(Flush(ds, context), context.meta_data, context.file_name).ok
  THEN UpdateParent(Flush(ds, context), context.meta_data, context.file_name)
  ELSE Throw("ERROR_ERRORS_ENCOUNTERED", Flush(ds, context))

\* CbFsCloseFile that takes a handle without a context for an error.
CloseUserContextThrowsOnNull(ds, user_context, flush) ==
  IF user_context = <<>> THEN Throw("ERROR_INVALID_HANDLE", ds)
  ELSE IF IsDirectory(user_context[1].meta_data) THEN [ok |-> TRUE, ds |-> ds]
  ELSE IF ~user_context[1].self_encryptor THEN [ok |-> TRUE, ds |-> ds]
  ELSE IF flush THEN CloseFlushed(Flush(ds, user_context[1]), user_context[1])
  ELSE [ok |-> TRUE, ds |-> ds]

\* CbFsCloseFile, but for the release of the context: user_context is <<>>
\* for nullptr, flush is what Flush() returns.  The attribute
\* FILE_ATTRIBUTE_DIRECTORY is set on the MetaData of directories and of
\* nothing else.
CloseUserContext(ds, user_context, flush) ==
  IF user_context = <<>> THEN [ok |-> TRUE, ds |-> ds]
  ELSE IF IsDirectory(user_context[1].meta_data) THEN [ok |-> TRUE, ds |-> ds]
  ELSE IF ~user_context[1].self_encryptor THEN [ok |-> TRUE, ds |-> ds]
  ELSE IF flush THEN CloseFlushed(Flush(ds, user_context[1]), user_context[1])
  ELSE [ok |-> TRUE, ds |-> ds]
\* The characters of the names of the model.
FilenameChars(name) ==
  CASE name = "con" -> <<"c", "o", "n">>
    [] name = "LPT1" -> <<"L", "P", "T", "1">>
    [] name = "nul.txt" -> <<"n", "u", "l", ".", "t", "x", "t">>
    [] name = "a?" -> <<"a", "?">>
    [] name = "a.ms_hidden" -> <<"a", ".", "m", "s", "_", "h", "i", "d", "d", "e", "n">>
    [] name = "a.ms" -> <<"a", ".", "m", "s">>
    [] OTHER -> <<name>>

\* boost::filesystem::path::stem: the name up to its last dot, if it has one
\* and is neither "." nor "..".
Stem(chars) ==
  IF chars \in {<<".">>, <<".", ".">>} \/ \A i \in 1..Len(chars) : chars[i] # "."
  THEN chars
  ELSE SubSeq(chars, 1, (CHOOSE i \in 1..Len(chars) :
                           chars[i] = "." /\ \A j \in (i + 1)..Len(chars) : chars[j] # ".") - 1)

tolower(ch) ==
  CASE ch = "A" -> "a" [] ch = "B" -> "b" [] ch = "C" -> "c" [] ch = "L" -> "l"
    [] ch = "M" -> "m" [] ch = "N" -> "n" [] ch = "O" -> "o" [] ch = "P" -> "p"
    [] ch = "R" -> "r" [] ch = "T" -> "t" [] ch = "U" -> "u" [] ch = "X" -> "x"
    [] OTHER -> ch
isdigit(ch) == ch \in {"0", "1", "2", "3", "4", "5", "6", "7", "8", "9"}
ToLower(chars) == [i \in 1..Len(chars) |-> tolower(chars[i])]

ExcludedStem(file_name) ==
  \/ /\ Len(file_name) = 4 /\ isdigit(file_name[4])
     /\ file_name[4] # "0"
     /\ ToLower(SubSeq(file_name, 1, 3)) \in {<<"c", "o", "m">>, <<"l", "p", "t">>}
  \/ /\ ~(Len(file_name) = 4 /\ isdigit(file_name[4]))
     /\ Len(file_name) = 3
     /\ ToLower(file_name) \in {<<"c", "o", "n">>, <<"p", "r", "n">>, <<"a", "u", "x">>,
                                <<"n", "u", "l">>}
  \/ /\ Len(file_name) = 6
     /\ file_name[6] = "$"
     /\ ToLower(SubSeq(file_name, 1, 5)) = <<"c", "l", "o", "c", "k">>
  \/ \E i \in 1..Len(file_name) :
       file_name[i] \in {"\"", "\\", "/", "<", ">", "?", ":", "*", "|"}

\* ExcludedFilename: no function of the drive calls it.
ExcludedFilename(name) == ExcludedStem(Stem(FilenameChars(name)))

\* ------------------------------------------------- session and bootstrap
\* The credentials a user can type.
Keywords == {"k", "l"}
Pins == {1234}
Passwords == {"p", "q"}
\* The signing key Maid::signer_type draws in the first run.
kMaid == "maid"

\* The passport library, by its contract: names are functions of what they
\* are derived from, and what is encrypted under credentials decrypts under
\* the same credentials only.
GenerateName(keyword, pin) == <<"mid", keyword, pin>>
EncryptSession(keyword, pin, password, serialised_session) ==
  [key |-> <<keyword, pin, password>>, plain |-> serialised_session]
DecryptSessionOk(keyword, pin, password, encrypted_session) ==
  encrypted_session.key = <<keyword, pin, password>>
DecryptSession(keyword, pin, password, encrypted_session) == encrypted_session.plain
TmidName(encrypted_session) == <<"tmid", encrypted_session>>
EncryptTmidName(keyword, pin, tmid_name) == [key |-> <<keyword, pin>>, plain |-> tmid_name]
DecryptTmidName(keyword, pin, encrypted_tmid_name) == encrypted_tmid_name.plain

\* Session::Serialise and Session::Parse: the protobuf has the two ids and
\* the serialised passport with the one fob of the maid.
SessionSerialise(session) ==
  [unique_user_id |-> session.unique_user_id_,
   root_parent_id |-> session.root_parent_id_,
   serialised_maid |-> <<session.maid_>>]
SessionParse(proto_session) ==
  [unique_user_id_ |-> proto_session.unique_user_id,
   root_parent_id_ |-> proto_session.root_parent_id,
   maid_ |-> proto_session.serialised_maid[1]]

PutPacket(pk, name, packet) ==
  [n \in (DOMAIN pk) \cup {name} |-> IF n = name THEN packet ELSE pk[n]]

\* What a constructor leaves: the handler's fields, the store, and the Put
\* calls it made, packets first.
Constructed(first_run, fields, ds, pk, packet_log) ==
  [ok |-> TRUE, first_run |-> first_run, handler |-> fields, ds |-> ds, packets |-> pk,
   log |-> packet_log \o [i \in 1..Len(ds.log) |-> <<ds.log[i].op, ds.log[i].key>>]]
ConstructorThrow(err, ds, pk) ==
  [ok |-> FALSE, err |-> err, first_run |-> FALSE, ds |-> ds, packets |-> pk, log |-> <<>>]

\* The first-run branch of the constructor.
FirstRunWith(ds, pk, keyword, pin, fields, encrypted_session) ==
  Constructed(
    TRUE, fields,
    PutToStorage(
      PutToStorage(ds, [parent_id |-> fields.unique_user_id_,
                        listing |-> AddChild(NewListing(fields.root_parent_id_),
                                             DirectoryMeta(relative_root_, kRootDirectoryId))]),
      [parent_id |-> fields.root_parent_id_, listing |-> NewListing(kRootDirectoryId)]),
    PutPacket(PutPacket(pk, TmidName(encrypted_session),
                        [encrypted_session |-> encrypted_session]),
              GenerateName(keyword, pin),
              [encrypted_tmid_name |->
                 EncryptTmidName(keyword, pin, TmidName(encrypted_session))]),
    << <<"Put", TmidName(encrypted_session)>>, <<"Put", GenerateName(keyword, pin)>> >>)

\* FirstRun that stores the root-parent listing and not the root listing.
FirstRunWithoutRoot(ds, pk, keyword, pin, password, fields) ==
  [FirstRunWith(ds, pk, keyword, pin, fields,
                EncryptSession(keyword, pin, password, SessionSerialise(fields)))
     EXCEPT !.ds = Delete(@, kRootDirectoryId)]

FirstRun(ds, pk, keyword, pin, password, fields) ==
  FirstRunWith(ds, pk, keyword, pin, fields,
               EncryptSession(keyword, pin, password, SessionSerialise(fields)))

\* The recovery branch of the constructor: MID -> TMID name -> TMID ->
\* session.
RecoverFrom(ds, pk, keyword, pin, password, tmid_name) ==
  IF tmid_name \notin DOMAIN pk THEN ConstructorThrow("not_found", ds, pk)
  ELSE IF ~DecryptSessionOk(keyword, pin, password, pk[tmid_name].encrypted_session)
  THEN ConstructorThrow("decryption_error", ds, pk)
  ELSE Constructed(FALSE,
                   SessionParse(DecryptSession(keyword, pin, password,
                                               pk[tmid_name].encrypted_session)),
                   ds, pk, <<>>)

\* Recovery that takes the two ids of the session for each other.
RecoveryIdsSwapped(ds, pk, keyword, pin, password) ==
  LET r == RecoverFrom(ds, pk, keyword, pin, password,
                       DecryptTmidName(keyword, pin,
                                       pk[GenerateName(keyword, pin)].encrypted_tmid_name))
  IN IF ~r.ok THEN r
     ELSE [r EXCEPT !.handler = [@ EXCEPT !.unique_user_id_ = r.handler.root_parent_id_,
                                          !.root_parent_id_ = r.handler.unique_user_id_]]

Recovery(ds, pk, keyword, pin, password) ==
  RecoverFrom(ds, pk, keyword, pin, password,
              DecryptTmidName(keyword, pin,
                              pk[GenerateName(keyword, pin)].encrypted_tmid_name))

\* DirectoryListingHandler::DirectoryListingHandler
DirectoryListingHandler(ds, pk, keyword, pin, password) ==
  IF GenerateName(keyword, pin) \notin DOMAIN pk
  THEN FirstRun(ds, pk, keyword, pin, password,
                [unique_user_id_ |-> unique_user_id_, root_parent_id_ |-> root_parent_id_,
                 maid_ |-> kMaid])
  ELSE Recovery(ds, pk, keyword, pin, password)

\* ----------------------------------------------------------- the machine
DS == [env |-> store, chunks |-> chunks, log |-> <<>>]

\* The ids in use: a fresh RandomString(64) is none of them.
ReferencedIds(ds) ==
  UNION {{c.directory_id[1] : c \in {x \in ds.env[k].data_map.content.children :
                                       x.directory_id # <<>>}} : k \in DOMAIN ds.env}
FreshDirectoryIds(ds) == NewDirectoryIds \ (DOMAIN ds.env \cup ReferencedIds(ds))
\* One fresh id stands for them all: no operation looks at an id's value.
FreshDirectoryId(ds) ==
  {id \in FreshDirectoryIds(ds) : \A other \in FreshDirectoryIds(ds) : id <= other}

FileEntries(ds) ==
  UNION {{<<k, c.name>> : c \in {x \in ds.env[k].data_map.content.children :
                                    x.directory_id = <<>>}} : k \in DOMAIN ds.env}

\* last, when no call has returned: path and new_path are the paths of the
\* call, meta_data the entry it was about, displaced the entry the new path
\* named before a rename, reclaimed_space the caller's variable afterwards,
\* log the keys the call has put and deleted, in their order.
NoCall == [op |-> "none", ok |-> TRUE, path |-> <<>>, new_path |-> <<>>,
           meta_data |-> <<>>, displaced |-> <<>>, reclaimed_space |-> 0,
           log |-> <<>>, credentials |-> <<>>, first_run |-> FALSE, err |-> "",
           handle |-> <<>>]

\* A store nothing was ever put to.
EmptyStore == [env |-> <<>>, chunks |-> {}, log |-> <<>>]

\* The handles the host has: none of them has a context.
MaxHandles == 1
FileInfos == 1..MaxHandles
NoContexts == [file_info \in FileInfos |-> <<>>]

\* DriveInUserSpace's constructor: the stage of a drive nothing has mounted,
\* and a callback file system without storage, media or mounting point.
DriveInUserSpace ==
  [drive_stage_ |-> "kUnInitialised",
   callback_filesystem_ |-> [StoragePresent |-> FALSE, Active |-> FALSE,
                             MountingPointCount |-> 0, RegistrationKey |-> FALSE]]

\* The threads of the host that call into the drive.
Threads == {1, 2}

\* A thread outside every call of the drive.
Idle == [pc |-> "idle", call |-> "", waited |-> 0, result |-> FALSE]

\* No thread is inside a call.
NoThreads == [t \in Threads |-> Idle]

\* The state the first-run constructor leaves: the root-parent listing with
\* the single child "/", and the empty root listing.
Init ==
  /\ posix \in BOOLEAN
  /\ \E c \in {DirectoryListingHandler(EmptyStore, <<>>, "k", 1234, "p")} :
       /\ store = c.ds.env
       /\ chunks = c.ds.chunks
       /\ packets = c.packets
       /\ handler = <<c.handler>>
  /\ contexts = NoContexts
  /\ drive = DriveInUserSpace
  /\ threads = NoThreads
  /\ last = NoCall

\* The write callback: the self-encryptor of the open file stores the chunks
\* of the content written (the file context is not part of the state).
WriteFile(content) ==
  /\ ~(content.data_map.chunks \subseteq chunks)
  /\ chunks' = chunks \cup content.data_map.chunks
  /\ last' = NoCall
  /\ UNCHANGED <<store, posix, packets, handler, contexts, drive, threads>>

\* A call that returned r without an exception: the store is as the call
\* left it.  A call that throws leaves the stored listings as they were
\* and is no step.
Returned(op, relative_path, new_relative_path, meta_data, displaced, r) ==
  /\ r.ok
  /\ store' = r.ds.env
  /\ chunks' = r.ds.chunks
  /\ last' = [op |-> op, ok |-> r.ok, path |-> relative_path,
              new_path |-> new_relative_path, meta_data |-> <<meta_data>>,
              displaced |-> IF displaced.ok THEN <<displaced.meta_data>> ELSE <<>>,
              reclaimed_space |-> IF op = "RenameFile" THEN r.reclaimed_space ELSE 0,
              log |-> [i \in 1..Len(r.ds.log) |-> <<r.ds.log[i].op, r.ds.log[i].key>>],
              credentials |-> <<>>, first_run |-> FALSE, err |-> "", handle |-> <<>>]
  /\ UNCHANGED <<posix, packets, handler, contexts, drive, threads>>

\* The paths the host calls an operation with: never "/" itself.
CallPaths == Paths \ {<<relative_root_>>}

\* InsertDataMap: a file entry with its DataMap is added.
CallAddFile(relative_path, content) ==
  Returned("AddFile", relative_path, <<>>, FileMeta(filename(relative_path), content),
           [ok |-> FALSE],
           AddFile(DS, relative_path, FileMeta(filename(relative_path), content)))

\* CreateDirectory: a directory entry with a fresh DirectoryId is added.
CallAddDirectory(relative_path, id) ==
  Returned("AddFile", relative_path, <<>>, DirectoryMeta(filename(relative_path), id),
           [ok |-> FALSE],
           AddFile(DS, relative_path, DirectoryMeta(filename(relative_path), id)))

\* The host asks IsDirectoryEmpty before it deletes a directory and deletes
\* only an empty one.
CanBeDeleted(found, directory) ==
  /\ found.ok
  /\ IsDirectory(found.meta_data) => (directory.ok /\ empty(directory.dir.listing))

RemoveReturned(relative_path, found, r) ==
  Returned("RemoveFile", relative_path, <<>>, found.meta_data, [ok |-> FALSE], r)

\* The delete callback.
CallRemoveFile(relative_path) ==
  /\ CanBeDeleted(GetMetaData(DS, relative_path), GetFromPath(DS, relative_path))
  /\ RemoveReturned(relative_path, GetMetaData(DS, relative_path),
                    RemoveFile(DS, relative_path))

\* The rename callback: the file context of the old path is looked up (the
\* callback returns "not found" without it), then RenameFile is called with
\* its meta_data.
CallRenameFile(old_relative_path, new_relative_path, meta_data, before) ==
  Returned("RenameFile", old_relative_path, new_relative_path, meta_data,
           GetMetaData(DS, new_relative_path),
           RenameFile(DS, old_relative_path, new_relative_path, meta_data, before))

IsPrefix(p, q) == Len(p) <= Len(q) /\ SubSeq(q, 1, Len(p)) = p

\* A file replaces only a file, a directory only a directory, and a
\* directory is replaced on POSIX only (on Windows that is an error of the
\* host's).  Whether a directory that is replaced is empty is left to the
\* drive.
MayReplace(meta_data, target) ==
  target.ok =>
    IF IsDirectory(target.meta_data) THEN IsDirectory(meta_data) /\ posix
    ELSE ~IsDirectory(meta_data)

\* The renames the host passes on to the drive.  It resolves a rename onto
\* the same path itself and refuses to move a directory into its own subtree
\* or onto one of its ancestors.
HostAllowsRename(ds, old_relative_path, new_relative_path, meta_data) ==
  /\ ~IsPrefix(old_relative_path, new_relative_path)
  /\ ~IsPrefix(new_relative_path, old_relative_path)
  /\ MayReplace(meta_data, GetMetaData(ds, new_relative_path))

Next ==
  \/ \E content \in FileContents : WriteFile(content)
  \/ /\ Cardinality(FileEntries(DS)) < MaxFiles
     /\ \E p \in CallPaths, content \in FileContents : CallAddFile(p, content)
  \/ \E id \in FreshDirectoryId(DS) : \E p \in CallPaths : CallAddDirectory(p, id)
  \/ \E p \in CallPaths : CallRemoveFile(p)
  \/ \E p \in CallPaths :
       \E found \in {GetMetaData(DS, p)} :
         /\ found.ok
         /\ \E q \in CallPaths, before \in ReclaimedBefore :
              /\ HostAllowsRename(DS, p, q, found.meta_data)
              /\ CallRenameFile(p, q, found.meta_data, before)

Spec == Init /\ [][Next]_vars

\* ---------------------------------------------------------------- claims
\* Two entries are the same but for timestamps: same name, same kind, same
\* data_map or directory_id.
SameEntry(m1, m2) ==
  /\ m1.name = m2.name
  /\ IsDirectory(m1) = IsDirectory(m2)
  /\ m1.data_map = m2.data_map
  /\ m1.directory_id = m2.directory_id

Resolves(ds, relative_path) == GetMetaData(ds, relative_path).ok

\* C1: after AddElement(p, m) has returned successfully, GetMetaData(p)
\* returns an entry with m's name, kind and data_map or directory_id,
\* whatever adds, deletes and renames came before.
C1_AddThenGetMetaData ==
  last.op = "AddFile" =>
    LET got == GetMetaData(DS, last.path)
    IN got.ok /\ SameEntry(got.meta_data, last.meta_data[1])

\* A file with chunks has been added two levels below the root and is found.
C1_Witness ==
  /\ last.op = "AddFile"
  /\ Len(last.path) = 3
  /\ ~IsDirectory(last.meta_data[1])
  /\ last.meta_data[1].data_map[1].chunks # {}
  /\ Resolves(DS, last.path)

\* C2: after DeleteElement(p) / RemoveFile(p) has returned successfully p
\* does not resolve: GetMetaData(p) fails and GetFromPath(p) fails with
\* not_found.
C2_DeletedDoesNotResolve ==
  last.op = "RemoveFile" =>
    /\ ~GetMetaData(DS, last.path).ok
    /\ GetMetaData(DS, last.path).err = "not_found"
    /\ ~GetFromPath(DS, last.path).ok
    /\ GetFromPath(DS, last.path).err = "not_found"

\* A directory two levels below the root has been deleted, its parent is
\* still there.
C2_Witness ==
  /\ last.op = "RemoveFile"
  /\ Len(last.path) = 3
  /\ IsDirectory(last.meta_data[1])
  /\ GetFromPath(DS, parent_path(last.path)).ok
  /\ ~Resolves(DS, last.path)


\* The directory ids GetFromPath can load, walking down from the root-parent
\* listing: an envelope counts when it is the child of a listing that counts
\* and decrypts under that listing's id.
ChildDirectoryIds(ds, ids) ==
  UNION {{c.directory_id[1] :
            c \in {x \in ds.env[k].data_map.content.children : x.directory_id # <<>>}}
         : k \in ids}
LoadableChildIds(ds, ids) ==
  UNION {{d \in ChildDirectoryIds(ds, {k}) : Has(ds, d) /\ Decrypts(ds.env[d], k, d)}
         : k \in ids}
RECURSIVE ReachableFrom(_, _)
ReachableFrom(ds, ids) ==
  LET more == ids \cup LoadableChildIds(ds, ids)
  IN IF more = ids THEN ids ELSE ReachableFrom(ds, more)
ReachableIds(ds) ==
  IF RetrieveFromStorage(ds, unique_user_id_, root_parent_id_).ok
  THEN ReachableFrom(ds, {root_parent_id_}) ELSE {}

\* C3: after a successful delete of p the store holds no orphan blob: the
\* chunks of a deleted file's DataMap are gone, the envelope of a deleted
\* directory is gone, and every directory envelope in the store is reachable
\* from the root-parent listing.
C3_NoOrphanAfterDelete ==
  last.op = "RemoveFile" =>
    /\ ~IsDirectory(last.meta_data[1]) =>
          last.meta_data[1].data_map[1].chunks \cap chunks = {}
    /\ IsDirectory(last.meta_data[1]) => ~Has(DS, last.meta_data[1].directory_id[1])
    /\ DOMAIN store \subseteq ReachableIds(DS)

\* The serialised children in the envelope stored under a DirectoryId.
StoredChildren(env, directory_id) == env[directory_id].data_map.content.children

FileRenamed(same) ==
  /\ last.op = "RenameFile"
  /\ ~IsDirectory(last.meta_data[1])
  /\ (parent_path(last.path) = parent_path(last.new_path)) = same

\* The new path resolves to a file with the DataMap the renamed file had.
NewPathHoldsDataMap ==
  LET got == GetMetaData(DS, last.new_path)
  IN /\ got.ok
     /\ ~IsDirectory(got.meta_data)
     /\ got.meta_data.data_map = last.meta_data[1].data_map

\* C5: after a successful rename a -> b of a file inside one directory, with
\* no entry named b there, GetMetaData(a) fails with not_found,
\* GetMetaData(b) returns a's DataMap and reclaimed_space is 0, whatever
\* the caller's variable held before.
C5_RenameNoTargetReclaimsNothing ==
  (FileRenamed(TRUE) /\ last.displaced = <<>>) =>
    /\ ~Resolves(DS, last.path)
    /\ GetMetaData(DS, last.path).err = "not_found"
    /\ NewPathHoldsDataMap
    /\ last.reclaimed_space = 0

\* C6: after a successful rename a -> b inside one directory, with b naming
\* another file, b resolves to a's DataMap, a does not resolve, the listing
\* has one child fewer and holds one entry named b, and reclaimed_space is
\* the allocated size of the displaced entry.
C6_RenameOntoFile ==
  [][(/\ last'.op = "RenameFile"
      /\ parent_path(last'.path) = parent_path(last'.new_path)
      /\ ~IsDirectory(last'.meta_data[1])
      /\ last'.displaced # <<>>
      /\ ~IsDirectory(last'.displaced[1]))
     =>
     LET after == [env |-> store', chunks |-> chunks']
         before == GetFromPath(DS, parent_path(last'.path))
         parent == GetFromPath(after, parent_path(last'.path))
         got == GetMetaData(after, last'.new_path)
     IN /\ got.ok
        /\ ~IsDirectory(got.meta_data)
        /\ got.meta_data.data_map = last'.meta_data[1].data_map
        /\ ~Resolves(after, last'.path)
        /\ parent.ok
        /\ Cardinality(parent.dir.listing.children)
             = Cardinality(before.dir.listing.children) - 1
        /\ Cardinality({c \in parent.dir.listing.children :
                          SameName(c.name, filename(last'.new_path))}) = 1
        /\ last'.reclaimed_space = GetAllocatedSize(last'.displaced[1])
        /\ last'.reclaimed_space = GetMetaData(DS, last'.new_path).meta_data.size
  ]_vars

\* A file has displaced a file of another content in its own directory, two
\* levels below the root.
C6_Witness ==
  /\ FileRenamed(TRUE)
  /\ Len(last.path) = 3
  /\ last.displaced # <<>>
  /\ last.displaced[1].data_map # last.meta_data[1].data_map
  /\ NewPathHoldsDataMap
  /\ last.reclaimed_space = last.displaced[1].size

\* C7: after a successful rename of a file to another directory that has no
\* entry of the target name, also when that directory is the parent of the
\* source directory, the old path does not resolve and the new path
\* resolves to the file with its DataMap, on POSIX and on Windows.
C7_RenameToOtherDirectory ==
  (FileRenamed(FALSE) /\ last.displaced = <<>>) =>
    /\ ~Resolves(DS, last.path)
    /\ NewPathHoldsDataMap

\* C8: after a successful rename /A/x -> /B/x of a file onto a file, /A/x is
\* absent, /B/x holds the DataMap /A/x had, reclaimed_space is the allocated
\* size of the displaced /B/x and the chunks of the displaced file's DataMap
\* are no longer in the store.  The displaced file shares no chunk with the
\* renamed one, so that its chunks belong to no file after the rename.
C8_RenameAcrossOntoFile ==
  (/\ FileRenamed(FALSE)
   /\ Len(last.path) = 3
   /\ Len(last.new_path) = 3
   /\ last.displaced # <<>>
   /\ ~IsDirectory(last.displaced[1])
   /\ last.displaced[1].data_map[1].chunks
        \cap last.meta_data[1].data_map[1].chunks = {})
  =>
    /\ ~Resolves(DS, last.path)
    /\ NewPathHoldsDataMap
    /\ last.reclaimed_space = GetAllocatedSize(last.displaced[1])
    /\ last.displaced[1].data_map[1].chunks \cap chunks = {}

\* The paths below a directory path, as far as the model's paths go.
PathsBelow(k) == {s \in Below(k) : Len(s) > 0}

\* C9: after a successful rename of a directory from a to b the directory
\* keeps its DirectoryId, GetFromPath(b) loads a listing with the children
\* it had at a and with the DirectoryId of b's parent as parent_id, every
\* descendant that resolved under a resolves under b, and a does not
\* resolve.
C9_RenameDirectory ==
  [][(last'.op = "RenameFile" /\ IsDirectory(last'.meta_data[1]))
     =>
     LET after == [env |-> store', chunks |-> chunks']
         a == last'.path
         b == last'.new_path
         before == GetFromPath(DS, a)
         moved == GetFromPath(after, b)
         parent == GetFromPath(after, parent_path(b))
         got == GetMetaData(after, b)
     IN /\ got.ok
        /\ got.meta_data.directory_id = last'.meta_data[1].directory_id
        /\ moved.ok
        /\ moved.dir.listing.directory_id = last'.meta_data[1].directory_id[1]
        /\ moved.dir.listing.children = before.dir.listing.children
        /\ parent.ok
        /\ moved.dir.parent_id = parent.dir.listing.directory_id
        /\ \A s \in PathsBelow(MaxDepth) :
             Resolves(DS, a \o s) =>
               /\ Resolves(after, b \o s)
               /\ SameEntry(GetMetaData(after, b \o s).meta_data,
                            GetMetaData(DS, a \o s).meta_data)
        /\ ~Resolves(after, a)
  ]_vars

\* C10: no rename of a directory onto the name of a directory that has
\* children succeeds: it fails and leaves both directories as they are.
C10_RenameOntoNonEmptyDirectoryFails ==
  [][~(/\ last'.op = "RenameFile"
       /\ last'.ok
       /\ IsDirectory(last'.meta_data[1])
       /\ last'.displaced # <<>>
       /\ IsDirectory(last'.displaced[1])
       /\ GetFromPath(DS, last'.new_path).ok
       /\ ~empty(GetFromPath(DS, last'.new_path).dir.listing))
  ]_vars

\* ------------------------------------------------- order of the writes
\* The envelopes after the first k Put and Delete calls of a log.
RECURSIVE EnvAfter(_, _, _)
EnvAfter(env, log, k) ==
  IF k = 0 THEN env
  ELSE IF log[k].op = "Put"
  THEN Put([env |-> EnvAfter(env, log, k - 1), log |-> <<>>], log[k].key,
           log[k].blob[1]).env
  ELSE Delete([env |-> EnvAfter(env, log, k - 1), log |-> <<>>], log[k].key).env

\* Every directory_id in a child entry of a stored listing has an envelope
\* that loads under (id of that listing, directory_id).
NoMissingChild(env) ==
  \A k \in DOMAIN env :
    \A c \in StoredChildren(env, k) :
      c.directory_id # <<>> =>
        /\ c.directory_id[1] \in DOMAIN env
        /\ Decrypts(env[c.directory_id[1]], k, c.directory_id[1])

\* The Put and Delete calls, with their blobs, of the call a step has made.
CallLog ==
  IF last'.op = "AddFile"
  THEN AddFile(DS, last'.path, last'.meta_data[1]).ds.log
  ELSE IF last'.op = "RemoveFile"
  THEN RemoveFile(DS, last'.path).ds.log
  ELSE IF last'.op = "RenameFile"
  THEN RenameFile(DS, last'.path, last'.new_path, last'.meta_data[1], 0).ds.log
  ELSE <<>>

\* C11: at every point between two Put / Delete calls of one AddElement,
\* DeleteElement or RenameElement call, every directory_id a stored listing
\* refers to has a stored envelope that loads under the ids of the listing
\* and the child: a stored parent never refers to an id that is not there.
C11_NoMissingChildBetweenWrites ==
  [][\A log \in {CallLog} :
       \A k \in 1..(Len(log) - 1) : NoMissingChild(EnvAfter(store, log, k))]_vars

\* The positions in a call's log at which the envelope under a key is put.
PutsOf(log, key) == {i \in 1..Len(log) : log[i] = <<"Put", key>>}
Precedes(log, first, second) ==
  \A i \in PutsOf(log, first), j \in PutsOf(log, second) : i < j

\* C12: in every AddElement, DeleteElement and RenameElement call, on both
\* builds, the envelope of the new or re-parented child directory is put
\* before the listing of its parent, and the listing of a parent before
\* the listing of the grandparent.
C12_PutOrder ==
  [][last'.op \in {"AddFile", "RemoveFile", "RenameFile"} =>
       LET pg == GetParentAndGrandparent(DS, last'.path)
           parent == pg.parent.listing.directory_id
           grandparent == pg.grandparent.listing.directory_id
           new_parent == IF last'.op = "RenameFile"
                         THEN GetFromPath(DS, parent_path(last'.new_path)).dir.listing.directory_id
                         ELSE parent
           child == IF IsDirectory(last'.meta_data[1])
                    THEN {last'.meta_data[1].directory_id[1]} ELSE {}
       IN /\ \A c \in child : /\ Precedes(last'.log, c, parent)
                              /\ Precedes(last'.log, c, new_parent)
          /\ grandparent \notin {parent, new_parent} =>
               /\ Precedes(last'.log, parent, grandparent)
               /\ Precedes(last'.log, new_parent, grandparent)
  ]_vars

\* ------------------------------------------------ bootstrap and recovery
\* A store and a data store nobody has used, and no handler.
InitBoot ==
  /\ posix \in BOOLEAN
  /\ store = EmptyStore.env
  /\ chunks = EmptyStore.chunks
  /\ packets = <<>>
  /\ handler = <<>>
  /\ contexts = NoContexts
  /\ drive = DriveInUserSpace
  /\ threads = NoThreads
  /\ last = NoCall

\* The drive is mounted: the handler is constructed over the store as it is.
\* The two ids of an account are the same in every run of the model, so one
\* store holds one account: the keyword and pin are those of its MID.
Construct(keyword, pin, password) ==
  /\ handler = <<>>
  /\ packets = <<>> \/ GenerateName(keyword, pin) \in DOMAIN packets
  /\ \E c \in {DirectoryListingHandler(DS, packets, keyword, pin, password)} :
       /\ store' = c.ds.env
       /\ chunks' = c.ds.chunks
       /\ packets' = c.packets
       /\ handler' = IF c.ok THEN <<c.handler>> ELSE <<>>
       /\ last' = [NoCall EXCEPT !.op = "Construct", !.ok = c.ok, !.log = c.log,
                                 !.credentials = <<keyword, pin, password>>,
                                 !.first_run = c.first_run]
  /\ UNCHANGED <<posix, contexts, drive, threads>>

\* The drive is unmounted: ~DirectoryListingHandler.
Destroy ==
  /\ handler # <<>>
  /\ handler' = <<>>
  /\ last' = [NoCall EXCEPT !.op = "Destroy"]
  /\ UNCHANGED <<store, chunks, posix, packets, contexts, drive, threads>>

NextBoot ==
  \/ \E keyword \in Keywords, pin \in Pins, password \in Passwords :
       Construct(keyword, pin, password)
  \/ Destroy
  \/ /\ handler # <<>>
     /\ Cardinality(FileEntries(DS)) < MaxFiles
     /\ \E p \in CallPaths, content \in FileContents : CallAddFile(p, content)
  \/ /\ handler # <<>>
     /\ \E id \in FreshDirectoryId(DS) : \E p \in CallPaths : CallAddDirectory(p, id)

SpecBoot == InitBoot /\ [][NextBoot]_vars

\* The first-run constructor has just returned.
AfterFirstRun == last.op = "Construct" /\ last.ok /\ last.first_run

\* The envelope under key holds the listing of directory_id, encrypted under
\* (parent_id, directory_id), with the children names.
StoredListing(key, parent_id, directory_id, names) ==
  /\ key \in DOMAIN store
  /\ Decrypts(store[key], parent_id, directory_id)
  /\ {c.name : c \in StoredChildren(store, key)} = names

TwoPackets ==
  \E tmid_name \in DOMAIN packets :
    /\ DOMAIN packets = {GenerateName(last.credentials[1], last.credentials[2]), tmid_name}
    /\ tmid_name # GenerateName(last.credentials[1], last.credentials[2])
    /\ tmid_name = TmidName(packets[tmid_name].encrypted_session)

RootIsEmpty ==
  \E r \in {GetFromPath(DS, <<relative_root_>>)} : r.ok /\ empty(r.dir.listing)

Account == (CHOOSE n \in DOMAIN packets : n[1] = "tmid")[2].key

\* Every directory a stored listing names can be walked to.
RECURSIVE TreeResolves(_, _)
TreeResolves(relative_path, depth) ==
  \E r \in {GetFromPath(DS, relative_path)} :
    /\ r.ok
    /\ depth > 0 =>
         \A c \in r.dir.listing.children :
           IsDirectory(c) => TreeResolves(Append(relative_path, c.name), depth - 1)

\* C14: construction over the store a first run has left, with the
\* credentials of that run, succeeds by the recovery branch; the handler
\* has the UniqueUserId, the RootParentId and the signing key of the first
\* run; the constructor puts and deletes nothing; every directory of the
\* stored tree resolves through GetFromPath.
C14_Recovery ==
  (last.op = "Construct" /\ ~(last.ok /\ last.first_run) /\ last.credentials = Account) =>
    /\ last.ok
    /\ handler = <<[unique_user_id_ |-> unique_user_id_, root_parent_id_ |-> root_parent_id_,
                    maid_ |-> kMaid]>>
    /\ last.log = <<>>
    /\ TreeResolves(<<relative_root_>>, MaxDepth)

C14_Witness ==
  /\ last.op = "Construct" /\ last.ok /\ ~last.first_run
  /\ \E p \in CallPaths : Len(p) = 3 /\ GetFromPath(DS, p).ok

\* ------------------------------------------------------ update of an entry
\* A file's context, changed by writes of the content, is saved into the
\* listing of its parent.
CallUpdateParent(relative_path, content) ==
  \E found \in {GetMetaData(DS, relative_path)} :
    /\ found.ok
    /\ ~IsDirectory(found.meta_data)
    /\ content.data_map.chunks \subseteq chunks
    /\ FileMeta(found.meta_data.name, content) # found.meta_data
    /\ Returned("UpdateParent", relative_path, <<>>,
                FileMeta(found.meta_data.name, content), found,
                UpdateParent(DS, FileMeta(found.meta_data.name, content),
                             parent_path(relative_path)))

NextUpdate ==
  \/ Next
  \/ \E p \in CallPaths, content \in FileContents : CallUpdateParent(p, content)

SpecUpdate == Init /\ [][NextUpdate]_vars

\* The entry a path has in the listing of its parent; the parent of "/" is
\* the root-parent listing.
ParentListingOf(relative_path) ==
  IF Len(relative_path) = 1
  THEN RetrieveFromStorage(DS, handler[1].unique_user_id_, handler[1].root_parent_id_)
  ELSE GetFromPath(DS, parent_path(relative_path))

\* C15: whenever GetFromPath(p) returns, the listing it returns has the
\* directory_id of p's entry in the listing of p's parent, and the
\* parent_id it returns is the directory_id of that listing.
C15_IdsOfResolvedPath ==
  \A p \in Paths :
    \A r \in {GetFromPath(DS, p)} :
      r.ok =>
        \E parent \in {ParentListingOf(p)} :
          /\ parent.ok
          /\ HasChild(parent.dir.listing, filename(p))
          /\ GetChild(parent.dir.listing, filename(p)).directory_id
               = <<r.dir.listing.directory_id>>
          /\ r.dir.parent_id = parent.dir.listing.directory_id

C15_Witness ==
  /\ last.op = "UpdateParent"
  /\ Len(last.path) = 3
  /\ GetMetaData(DS, last.path).ok
  /\ GetMetaData(DS, last.path).meta_data = last.meta_data[1]
  /\ GetFromPath(DS, parent_path(last.path)).ok

\* ------------------------------------------------- names that differ in case
\* Names a host can pass that differ in case only, and another one; the
\* paths with them are one level less deep than Paths.
CaseNames == {"a", "A", "b"}
CasePaths ==
  {<<relative_root_>> \o s : s \in UNION {[1..n -> CaseNames] : n \in 1..(MaxDepth - 1)}}

\* The host takes paths that differ in case only for the same path.
IsPrefixWithoutCase(p, q) ==
  Len(p) < Len(q) /\ \A i \in 1..Len(p) : SameName(p[i], q[i])

\* A call of the drive API that throws: its caller sees the exception.
Threw(op, relative_path, meta_data, r) ==
  /\ ~r.ok
  /\ store' = r.ds.env
  /\ chunks' = r.ds.chunks
  /\ last' = [NoCall EXCEPT !.op = op, !.ok = FALSE, !.err = r.err, !.path = relative_path,
                            !.meta_data = <<meta_data>>,
                            !.log = [i \in 1..Len(r.ds.log) |->
                                       <<r.ds.log[i].op, r.ds.log[i].key>>]]
  /\ UNCHANGED <<posix, packets, handler, contexts, drive, threads>>

CallAddFileThrows(relative_path, meta_data) ==
  Threw("AddFile", relative_path, meta_data, AddFile(DS, relative_path, meta_data))

NextCase ==
  \/ /\ Cardinality(FileEntries(DS)) < MaxFiles
     /\ \E p \in CasePaths, content \in FileContents : CallAddFile(p, content)
  \/ \E id \in FreshDirectoryId(DS) : \E p \in CasePaths : CallAddDirectory(p, id)
  \/ \E p \in CasePaths, content \in FileContents :
       CallAddFileThrows(p, FileMeta(filename(p), content))
  \/ \E id \in FreshDirectoryId(DS) : \E p \in CasePaths :
       CallAddFileThrows(p, DirectoryMeta(filename(p), id))
  \/ \E p \in CasePaths :
       \E found \in {GetMetaData(DS, p)} :
         /\ found.ok
         /\ \E q \in CasePaths :
              /\ ~IsPrefixWithoutCase(p, q)
              /\ ~IsPrefixWithoutCase(q, p)
              /\ HostAllowsRename(DS, p, q, found.meta_data)
              /\ CallRenameFile(p, q, found.meta_data, 0)

SpecCase == Init /\ [][NextCase]_vars

UniqueNames(env) ==
  \A k \in DOMAIN env :
    \A c1, c2 \in StoredChildren(env, k) : SameName(c1.name, c2.name) => c1 = c2

\* The parent of the path resolves and has a child of that name, in any case.
NameTaken(relative_path) ==
  \E parent \in {GetFromPath(DS, parent_path(relative_path))} :
    parent.ok /\ HasChild(parent.dir.listing, filename(relative_path))

\* C16: after every add and every rename no stored listing has two children
\* whose names are equal without regard to case; an add under a name that
\* a child of the parent has, in the same or in another case, fails, and
\* the store, with the parent's listing and the child in it, is as before.
C16_NamesUniqueWithoutCase ==
  [][/\ UniqueNames(store')
     /\ (last'.op = "AddFile" /\ NameTaken(last'.path)) =>
          /\ ~last'.ok
          /\ store' = store]_vars

C16_Witness ==
  /\ last.op = "AddFile" /\ ~last.ok
  /\ filename(last.path) = "A"
  /\ \E parent \in {GetFromPath(DS, parent_path(last.path))} :
       /\ parent.ok
       /\ \E c \in parent.dir.listing.children : c.name = "a"

\* -------------------------------------------------------- reserved names
\* Names a host can pass: an ordinary one, device names, a name with an
\* excluded character.
ReservedNames == {"a", "con", "LPT1", "nul.txt", "a?"}
ReservedPaths ==
  {<<relative_root_>> \o s : s \in UNION {[1..n -> ReservedNames] : n \in 1..(MaxDepth - 1)}}

NextNames ==
  \/ /\ Cardinality(FileEntries(DS)) < MaxFiles
     /\ \E p \in ReservedPaths, content \in FileContents : CallAddFile(p, content)
  \/ \E id \in FreshDirectoryId(DS) : \E p \in ReservedPaths : CallAddDirectory(p, id)
  \/ \E p \in ReservedPaths :
       \E found \in {GetMetaData(DS, p)} :
         /\ found.ok
         /\ \E q \in ReservedPaths :
              /\ HostAllowsRename(DS, p, q, found.meta_data)
              /\ CallRenameFile(p, q, found.meta_data, 0)

SpecNames == Init /\ [][NextNames]_vars

\* C17: no add and no rename leaves, in a stored listing below the
\* root-parent's, a child whose name is a reserved device name (con, prn,
\* aux, nul, com1..9, lpt1..9, clock$, in any case) or has one of the
\* excluded characters; the attempt is rejected and the listing is as before.
C17_NoReservedName ==
  \A k \in DOMAIN store \ {handler[1].root_parent_id_} :
    \A c \in StoredChildren(store, k) : ~ExcludedFilename(c.name)

\* ------------------------------------------------- parsing of a MetaData
ShallowPaths == PathsTo(MaxDepth - 1) \ {<<relative_root_>>}

\* The serialised children of the stored listings, and what they become
\* when a directory_id or a serialised_data_map is put in as well, and when
\* both are taken out.
SerialisedMetaDatas ==
  UNION {UNION {{pb,
                 [pb EXCEPT !.data_map = IF @ = <<>>
                                         THEN <<[chunks |-> {}, content |-> "small"]>> ELSE @,
                            !.directory_id = IF @ = <<>> THEN <<kRootDirectoryId>> ELSE @],
                 [pb EXCEPT !.data_map = <<>>, !.directory_id = <<>>]} :
                  pb \in StoredChildren(store, k)} : k \in DOMAIN store}

\* A serialised MetaData is parsed.
CallMetaDataParse(pb) ==
  \E r \in {MetaDataParse(pb)} :
    /\ last' = [NoCall EXCEPT !.op = "Parse", !.ok = r.ok,
                              !.err = IF r.ok THEN "" ELSE r.err,
                              !.meta_data = <<pb>>,
                              !.displaced = IF r.ok THEN <<r.meta_data>> ELSE <<>>]
    /\ UNCHANGED <<store, chunks, posix, packets, handler, contexts, drive, threads>>

NextParse ==
  \/ /\ Cardinality(FileEntries(DS)) < MaxFiles
     /\ \E p \in ShallowPaths, content \in FileContents : CallAddFile(p, content)
  \/ \E id \in FreshDirectoryId(DS) : \E p \in ShallowPaths : CallAddDirectory(p, id)
  \/ \E p \in ShallowPaths : CallRemoveFile(p)
  \/ \E p \in ShallowPaths :
       \E found \in {GetMetaData(DS, p)} :
         /\ found.ok
         /\ \E q \in ShallowPaths :
              /\ HostAllowsRename(DS, p, q, found.meta_data)
              /\ CallRenameFile(p, q, found.meta_data, 0)
  \/ \E pb \in SerialisedMetaDatas : CallMetaDataParse(pb)

SpecParse == Init /\ [][NextParse]_vars

ExactlyOne(meta_data) == (meta_data.data_map # <<>>) # (meta_data.directory_id # <<>>)

\* C18: every child of a stored listing, and of a listing GetFromPath has
\* loaded, has exactly one of data_map and directory_id; parsing a
\* serialised MetaData with both throws parsing_error, parsing one with
\* neither throws invalid_parameter, and parsing one with exactly one
\* returns a MetaData with that one.
C18_ExactlyOneOfDataMapAndDirectoryId ==
  /\ \A k \in DOMAIN store : \A c \in StoredChildren(store, k) : ExactlyOne(c)
  /\ \A p \in Paths :
       \A r \in {GetFromPath(DS, p)} :
         r.ok => \A c \in r.dir.listing.children : ExactlyOne(c)
  /\ last.op = "Parse" =>
       \E pb \in {last.meta_data[1]} :
         /\ (pb.data_map # <<>> /\ pb.directory_id # <<>>) =>
              ~last.ok /\ last.err = "parsing_error"
         /\ (pb.data_map = <<>> /\ pb.directory_id = <<>>) =>
              ~last.ok /\ last.err = "invalid_parameter"
         /\ ExactlyOne(pb) =>
              /\ last.ok
              /\ last.displaced[1].data_map = pb.data_map
              /\ last.displaced[1].directory_id = pb.directory_id

C18_Witness ==
  /\ last.op = "Parse" /\ last.err = "parsing_error"
  /\ last.meta_data[1].name \in Names
  /\ \E p \in ShallowPaths : GetMetaData(DS, p).ok

\* --------------------------------------------------- the host's handles
\* What a callback on a handle leaves in last.
HandleCall(op, ok, err, file_info, flush) ==
  [NoCall EXCEPT !.op = op, !.ok = ok, !.err = err,
                 !.handle = <<[file_info |-> file_info, context |-> contexts[file_info],
                               flush |-> flush]>>]

\* A callback that changes the context of the handle and nothing else.
ContextChanged(op, file_info, user_context) ==
  /\ contexts' = [contexts EXCEPT ![file_info] = user_context]
  /\ last' = HandleCall(op, TRUE, "", file_info, TRUE)
  /\ UNCHANGED <<store, chunks, posix, packets, handler, drive, threads>>

\* CbFsCreateFile: the host has made a new file_info for the name.
CbFsCreateFile(file_info, relative_path, meta_data) ==
  /\ contexts[file_info] = <<>>
  /\ \E r \in {AddFile(DS, relative_path, meta_data)} :
       /\ r.ok
       /\ store' = r.ds.env
       /\ chunks' = r.ds.chunks
       /\ contexts' = [contexts EXCEPT
                         ![file_info] = <<CreatedContext(relative_path, meta_data)>>]
       /\ last' = [HandleCall("CreateFile", TRUE, "", file_info, TRUE) EXCEPT
                     !.path = relative_path, !.meta_data = <<meta_data>>,
                     !.log = [i \in 1..Len(r.ds.log) |-> <<r.ds.log[i].op, r.ds.log[i].key>>]]
  /\ UNCHANGED <<posix, packets, handler, drive, threads>>

\* CbFsOpenFile: nothing is done for a handle that has a context.
CbFsOpenFile(file_info, relative_path) ==
  \E r \in {GetFileContext(DS, relative_path)} :
    /\ contexts[file_info] # <<>> \/ r.ok
    /\ ContextChanged("OpenFile", file_info,
                      IF contexts[file_info] # <<>> THEN contexts[file_info]
                      ELSE <<OpenedContext(r.context)>>)

\* CbFsWriteFile: the encryptor takes the content, and the DataMap of the
\* context, with the sizes the host sets along with it, is that of the
\* content.
CbFsWriteFile(file_info, content) ==
  /\ contexts[file_info] # <<>>
  /\ contexts[file_info][1].self_encryptor
  /\ ContextChanged("WriteFile", file_info,
                    <<[contexts[file_info][1] EXCEPT
                         !.meta_data = FileMeta(@.name, content),
                         !.content_changed = TRUE]>>)

\* CbFsSetEndOfFile to 0: TruncateFile, and the sizes are set.
CbFsSetEndOfFile(file_info) ==
  /\ contexts[file_info] # <<>>
  /\ ~IsDirectory(contexts[file_info][1].meta_data)
  /\ ContextChanged("SetEndOfFile", file_info,
                    <<[contexts[file_info][1] EXCEPT
                         !.meta_data = FileMeta(@.name, EmptyContent),
                         !.self_encryptor = TRUE,
                         !.content_changed = TRUE]>>)

\* CbFsReadFile: the time of the last access is set.
CbFsReadFile(file_info) ==
  /\ contexts[file_info] # <<>>
  /\ contexts[file_info][1].self_encryptor
  /\ ContextChanged("ReadFile", file_info,
                    <<[contexts[file_info][1] EXCEPT !.content_changed = TRUE]>>)

\* CbFsSetFileAttributes: attributes and times are not among the fields of
\* the model's MetaData.
CbFsSetFileAttributes(file_info) ==
  /\ contexts[file_info] # <<>>
  /\ ContextChanged("SetFileAttributes", file_info,
                    <<[contexts[file_info][1] EXCEPT !.content_changed = TRUE]>>)

\* CbFsCloseFile: the deleter of the context runs on every way out.
CbFsCloseFile(file_info, flush) ==
  \E r \in {CloseUserContext(DS, contexts[file_info], flush)} :
    /\ store' = r.ds.env
    /\ chunks' = r.ds.chunks
    /\ contexts' = [contexts EXCEPT ![file_info] = <<>>]
    /\ last' = [HandleCall("CloseFile", r.ok, IF r.ok THEN "" ELSE r.err, file_info, flush)
                  EXCEPT !.log = [i \in 1..Len(r.ds.log) |->
                                    <<r.ds.log[i].op, r.ds.log[i].key>>]]
    /\ UNCHANGED <<posix, packets, handler, drive, threads>>

\* The Windows build, where these callbacks are.
InitFiles == Init /\ ~posix

NextFiles ==
  \/ /\ Cardinality(FileEntries(DS)) < MaxFiles
     /\ \E file_info \in FileInfos, p \in ShallowPaths :
          CbFsCreateFile(file_info, p, FileMeta(filename(p), EmptyContent))
  \/ \E id \in FreshDirectoryId(DS) : \E file_info \in FileInfos, p \in ShallowPaths :
       CbFsCreateFile(file_info, p, DirectoryMeta(filename(p), id))
  \/ \E file_info \in FileInfos, p \in ShallowPaths : CbFsOpenFile(file_info, p)
  \/ \E file_info \in FileInfos, content \in FileContents : CbFsWriteFile(file_info, content)
  \/ \E file_info \in FileInfos : CbFsSetEndOfFile(file_info)
  \/ \E file_info \in FileInfos : CbFsReadFile(file_info)
  \/ \E file_info \in FileInfos : CbFsSetFileAttributes(file_info)
  \/ \E file_info \in FileInfos, flush \in BOOLEAN : CbFsCloseFile(file_info, flush)
  \/ \E p \in ShallowPaths : CallRemoveFile(p)

SpecFiles == InitFiles /\ [][NextFiles]_vars

\* C19: CbFsCloseFile on a handle that has no context, as after a close,
\* changes neither the store nor the handle and raises no error.
C19_CloseOfClosedHandle ==
  [][(last'.op = "CloseFile" /\ last'.handle[1].context = <<>>) =>
       /\ last'.ok
       /\ store' = store
       /\ chunks' = chunks
       /\ contexts' = contexts]_vars

C19_Witness ==
  /\ last.op = "CloseFile" /\ last.handle[1].context = <<>>
  /\ \E p \in ShallowPaths : GetMetaData(DS, p).ok

\* The entry the context's name has in the stored listing of its parent is
\* the MetaData of the context.
StoredInParent(env, context) ==
  \E parent \in {GetFromPath(DS, parent_path(context.file_name))} :
    /\ parent.ok
    /\ parent.dir.listing.directory_id \in DOMAIN env
    /\ Serialise(context.meta_data) \in StoredChildren(env, parent.dir.listing.directory_id)

\* C20: CbFsCloseFile on a handle that has a context releases the context
\* with its encryptor; if content_changed is set, the MetaData of the
\* context is afterwards the entry of its name in the stored listing of
\* the parent; when Flush() fails the close raises no error.
C20_CloseSavesChangedContext ==
  [][(last'.op = "CloseFile" /\ last'.handle[1].context # <<>>) =>
       /\ contexts'[last'.handle[1].file_info] = <<>>
       /\ last'.handle[1].context[1].content_changed =>
            StoredInParent(store', last'.handle[1].context[1])
       /\ ~last'.handle[1].flush => last'.ok]_vars

\* ------------------------------------------------------- explicit flush
\* CbFsFlushFile: nothing is done for a handle without a context; the host
\* flushes the handles of files, whose contexts have an encryptor.
CbFsFlushFile(file_info, flush) ==
  /\ contexts[file_info] # <<>> => contexts[file_info][1].self_encryptor
  /\ \E r \in {IF contexts[file_info] = <<>> THEN [ok |-> TRUE, ds |-> DS]
               ELSE FlushUserContext(DS, contexts[file_info][1], flush)} :
       /\ store' = r.ds.env
       /\ chunks' = r.ds.chunks
       /\ last' = [HandleCall("FlushFile", r.ok, IF r.ok THEN "" ELSE r.err, file_info, flush)
                     EXCEPT !.log = [i \in 1..Len(r.ds.log) |->
                                       <<r.ds.log[i].op, r.ds.log[i].key>>]]
  /\ UNCHANGED <<posix, packets, handler, contexts, drive, threads>>

NextFlush ==
  \/ NextFiles
  \/ \E file_info \in FileInfos, flush \in BOOLEAN : CbFsFlushFile(file_info, flush)

SpecFlush == InitFiles /\ [][NextFlush]_vars

\* C21: CbFsFlushFile on a handle whose content_changed is set and whose
\* encryptor flushes raises no error, and the MetaData of the context is
\* afterwards the entry of its name in the stored listing of the parent.
C21_FlushSavesChangedContext ==
  [][(/\ last'.op = "FlushFile"
      /\ last'.handle[1].context # <<>>
      /\ last'.handle[1].context[1].content_changed
      /\ last'.handle[1].flush) =>
       /\ last'.ok
       /\ StoredInParent(store', last'.handle[1].context[1])]_vars

\* ------------------------------------------------------ mount and unmount
\* The times the host may make UnmountMedia fail before it succeeds.
MaxRetries == 1

\* The seconds a thread is followed while it waits.
MaxWait == 11

\* The cap of WaitUntilMounted, in seconds.
kMountedWait == 10

\* SetMountState, under mount_mutex_.
SetMountState(d, mounted) ==
  [d EXCEPT !.drive_stage_ = IF mounted THEN "kMounted" ELSE "kUnMounted"]

\* Init and Mount, which the constructor runs: create_storage and
\* mount_media tell whether the callback file system does what is asked.
CbfsInit(d, create_storage, mount_media) ==
  IF ~create_storage
  THEN [ok |-> FALSE, err |-> "uninitialised", log |-> <<"SetRegistrationKey", "CreateStorage">>,
        drive |-> [d EXCEPT !.callback_filesystem_.RegistrationKey = TRUE]]
  ELSE IF ~mount_media
  THEN [ok |-> FALSE, err |-> "failed_to_mount",
        log |-> <<"SetRegistrationKey", "CreateStorage", "MountMedia">>,
        drive |-> [drive_stage_ |-> "kInitialised",
                   callback_filesystem_ |-> [StoragePresent |-> TRUE, Active |-> FALSE,
                                             MountingPointCount |-> 0,
                                             RegistrationKey |-> TRUE]]]
  ELSE [ok |-> TRUE, err |-> "",
        log |-> <<"SetRegistrationKey", "CreateStorage", "MountMedia", "AddMountingPoint">>,
        drive |-> SetMountState([drive_stage_ |-> "kMounted",
                                 callback_filesystem_ |-> [StoragePresent |-> TRUE,
                                                           Active |-> TRUE,
                                                           MountingPointCount |-> 1,
                                                           RegistrationKey |-> TRUE]], TRUE)]

RECURSIVE DeleteMountingPoints(_)
DeleteMountingPoints(count) ==
  IF count = 0 THEN <<>> ELSE <<"DeleteMountingPoint">> \o DeleteMountingPoints(count - 1)

\* UnmountDrive: while the media is active, delete the mounting points and
\* unmount; UnmountMedia throws `failures` times before it succeeds.
RECURSIVE UnmountDrive(_, _)
UnmountDrive(cbfs, failures) ==
  IF ~cbfs.Active THEN [cbfs |-> cbfs, log |-> <<>>]
  ELSE IF failures > 0
  THEN [cbfs |-> UnmountDrive([cbfs EXCEPT !.MountingPointCount = 0], failures - 1).cbfs,
        log |-> DeleteMountingPoints(cbfs.MountingPointCount) \o <<"UnmountMedia">>
                \o UnmountDrive([cbfs EXCEPT !.MountingPointCount = 0], failures - 1).log]
  ELSE [cbfs |-> [cbfs EXCEPT !.MountingPointCount = 0, !.Active = FALSE],
        log |-> DeleteMountingPoints(cbfs.MountingPointCount) \o <<"UnmountMedia">>]

\* Unmount with a DeleteStorage that is called whether or not there is storage.
UnmountDeletesAbsentStorage(d, failures, delete_storage) ==
  IF ~delete_storage
  THEN [ok |-> FALSE,
        log |-> UnmountDrive(d.callback_filesystem_, failures).log \o <<"DeleteStorage">>,
        drive |-> [d EXCEPT !.callback_filesystem_ =
                                UnmountDrive(d.callback_filesystem_, failures).cbfs]]
  ELSE [ok |-> TRUE,
        log |-> UnmountDrive(d.callback_filesystem_, failures).log
                \o <<"DeleteStorage", "SetRegistrationKey">>,
        drive |-> SetMountState(
                    [drive_stage_ |-> "kCleaned",
                     callback_filesystem_ |->
                       [UnmountDrive(d.callback_filesystem_, failures).cbfs
                          EXCEPT !.StoragePresent = FALSE, !.RegistrationKey = FALSE]], FALSE)]

\* Unmount: delete_storage tells whether DeleteStorage does what is asked.
Unmount(d, failures, delete_storage) ==
  IF d.drive_stage_ = "kCleaned" THEN [ok |-> TRUE, log |-> <<>>, drive |-> SetMountState(d, FALSE)]
  ELSE IF UnmountDrive(d.callback_filesystem_, failures).cbfs.StoragePresent /\ ~delete_storage
  THEN [ok |-> FALSE,
        log |-> UnmountDrive(d.callback_filesystem_, failures).log \o <<"DeleteStorage">>,
        drive |-> [d EXCEPT !.callback_filesystem_ =
                                UnmountDrive(d.callback_filesystem_, failures).cbfs]]
  ELSE [ok |-> TRUE,
        log |-> UnmountDrive(d.callback_filesystem_, failures).log
                \o (IF d.callback_filesystem_.StoragePresent THEN <<"DeleteStorage">> ELSE <<>>)
                \o <<"SetRegistrationKey">>,
        drive |-> SetMountState(
                    [drive_stage_ |-> "kCleaned",
                     callback_filesystem_ |->
                       [UnmountDrive(d.callback_filesystem_, failures).cbfs
                          EXCEPT !.StoragePresent = FALSE, !.RegistrationKey = FALSE]], FALSE)]

\* What a call on the drive's mount state returned; it remembers the call
\* before it.
MountCall(op, r) ==
  [NoCall EXCEPT !.op = op, !.ok = r.ok, !.log = r.log,
                 !.handle = <<[previous |-> last.op, previous_ok |-> last.ok,
                               drive_stage_ |-> drive.drive_stage_]>>]

CallCbfsInit(create_storage, mount_media) ==
  /\ drive.drive_stage_ = "kUnInitialised"
  /\ \E r \in {CbfsInit(drive, create_storage, mount_media)} :
       /\ drive' = r.drive
       /\ last' = MountCall("CbfsInit", r)
  /\ UNCHANGED <<store, chunks, posix, packets, handler, contexts, threads>>

CallUnmount(failures, delete_storage) ==
  /\ \E r \in {Unmount(drive, failures, delete_storage)} :
       /\ drive' = r.drive
       /\ last' = MountCall("Unmount", r)
  /\ UNCHANGED <<store, chunks, posix, packets, handler, contexts, threads>>

\* The host ejects the storage.
CbFsOnEjectStorage ==
  /\ drive.callback_filesystem_.StoragePresent
  /\ drive.drive_stage_ # "kUnMounted"
  /\ drive' = SetMountState(drive, FALSE)
  /\ last' = MountCall("CbFsOnEjectStorage", [ok |-> TRUE, log |-> <<>>])
  /\ UNCHANGED <<store, chunks, posix, packets, handler, contexts, threads>>

\* A predicate that takes the stage before the awaited one for it.
AwaitedOrOnTheWay(call) ==
  IF call = "WaitUntilMounted" THEN drive.drive_stage_ \in {"kInitialised", "kMounted"}
  ELSE drive.drive_stage_ \in {"kCleaned", "kUnMounted", "kUnInitialised"}

\* The predicate a waiting call looks at under mount_mutex_.
Awaited(call) ==
  IF call = "WaitUntilMounted" THEN drive.drive_stage_ = "kMounted"
  ELSE drive.drive_stage_ = "kUnMounted"

\* A thread calls WaitUntilMounted or WaitUntilUnMounted: it returns at
\* once when the stage is the one it waits for, and blocks otherwise.
CallWait(t, call) ==
  /\ threads[t].pc # "blocked"
  /\ threads' = [threads EXCEPT ![t] =
                   [pc |-> IF Awaited(call) THEN "returned" ELSE "blocked",
                    call |-> call, waited |-> 0, result |-> Awaited(call)]]
  /\ UNCHANGED <<store, chunks, posix, last, packets, handler, contexts, drive>>

\* A blocked thread wakes and returns: when the stage is the one it waits
\* for, or, in WaitUntilMounted only, when the ten seconds are over; the
\* result is the predicate as it is then.
WakeWait(t) ==
  /\ threads[t].pc = "blocked"
  /\ \/ Awaited(threads[t].call)
     \/ threads[t].call = "WaitUntilMounted" /\ threads[t].waited >= kMountedWait
  /\ threads' = [threads EXCEPT ![t].pc = "returned",
                                ![t].result = Awaited(threads[t].call)]
  /\ UNCHANGED <<store, chunks, posix, last, packets, handler, contexts, drive>>

\* A second passes.
Tick ==
  /\ \E t \in Threads : threads[t].pc \in {"blocked", "notified"} /\ threads[t].waited < MaxWait
  /\ threads' = [t \in Threads |->
                   IF threads[t].pc \in {"blocked", "notified"} /\ threads[t].waited < MaxWait
                   THEN [threads[t] EXCEPT !.waited = @ + 1] ELSE threads[t]]
  /\ UNCHANGED <<store, chunks, posix, last, packets, handler, contexts, drive>>

InitMount ==
  /\ Init
  /\ ~posix

NextMount ==
  \/ \E create_storage, mount_media \in BOOLEAN : CallCbfsInit(create_storage, mount_media)
  \/ \E failures \in 0..MaxRetries, delete_storage \in BOOLEAN :
       CallUnmount(failures, delete_storage)
  \/ CbFsOnEjectStorage
  \/ \E t \in Threads, call \in {"WaitUntilMounted", "WaitUntilUnMounted"} : CallWait(t, call)
  \/ \E t \in Threads : WakeWait(t)
  \/ Tick

SpecMount == InitMount /\ [][NextMount]_vars

\* The calls with which Unmount takes the drive away from the host.
CleanUp == {"DeleteMountingPoint", "UnmountMedia", "DeleteStorage"}

NoCleanUp(log) == \A i \in 1..Len(log) : log[i] \notin CleanUp

Returns(t) ==
  /\ threads'[t] # threads[t]
  /\ threads'[t].pc = "returned"

\* C23: WaitUntilMounted returns true only if drive_stage_ is kMounted when
\* it returns, and false only if the stage is not kMounted after the ten
\* seconds; once the ten seconds are over it can return whatever the stage
\* is.  WaitUntilUnMounted returns only when drive_stage_ is kUnMounted,
\* however long it has waited.
C23_Waits ==
  /\ [][\A t \in Threads : Returns(t) =>
          /\ threads'[t].call = "WaitUntilMounted" =>
               /\ threads'[t].result <=> drive'.drive_stage_ = "kMounted"
               /\ ~threads'[t].result => threads'[t].waited >= kMountedWait
          /\ threads'[t].call = "WaitUntilUnMounted" =>
               /\ drive'.drive_stage_ = "kUnMounted"
               /\ threads'[t].result]_vars
  /\ [](\A t \in Threads :
          (/\ threads[t].pc = "blocked"
           /\ threads[t].call = "WaitUntilMounted"
           /\ threads[t].waited >= kMountedWait) => ENABLED WakeWait(t))

\* One thread has come back from WaitUntilMounted with false after the ten
\* seconds, while the other still waits in WaitUntilUnMounted after more
\* than ten.
C23_Witness ==
  \E t, u \in Threads :
    /\ threads[t].pc = "returned"
    /\ threads[t].call = "WaitUntilMounted"
    /\ ~threads[t].result
    /\ threads[t].waited >= kMountedWait
    /\ threads[u].pc = "blocked"
    /\ threads[u].call = "WaitUntilUnMounted"
    /\ threads[u].waited > kMountedWait
    /\ drive.drive_stage_ \notin {"kMounted", "kUnMounted"}

\* ------------------------------------------------------------------ notes
\* The notes a caller attaches, and how many of them the entries of the
\* drive are given in all.
Notes == {"n", "m"}

MaxNotes == 2

NotesGiven ==
  UNION {{<<k, pb.name, i>> : i \in 1..Len(pb.notes)} :
           <<k, pb>> \in UNION {{<<k, pb>> : pb \in StoredChildren(store, k)} :
                                  k \in DOMAIN store}}

\* AddNote is called; a call that throws leaves the store as it was.
CallAddNote(relative_path, note) ==
  /\ Cardinality(NotesGiven) < MaxNotes
  /\ \E r \in {AddNote(DS, relative_path, note)} :
       /\ store' = r.ds.env
       /\ chunks' = r.ds.chunks
       /\ last' = [NoCall EXCEPT !.op = "AddNote", !.ok = r.ok, !.path = relative_path,
                                 !.err = IF r.ok THEN "" ELSE r.err,
                                 !.handle = <<[note |-> note]>>]
  /\ UNCHANGED <<posix, packets, handler, contexts, drive, threads>>

NextNotes ==
  \/ /\ Cardinality(FileEntries(DS)) < MaxFiles
     /\ \E p \in CallPaths, content \in FileContents : CallAddFile(p, content)
  \/ \E id \in FreshDirectoryId(DS) : \E p \in CallPaths : CallAddDirectory(p, id)
  \/ \E p \in Paths \cup {<<>>}, note \in Notes : CallAddNote(p, note)

SpecNotes == Init /\ [][NextNotes]_vars

\* The entry a path has in its parent's listing, if it has one.
EntryOf(ds, relative_path) ==
  IF GetMetaData(ds, relative_path).ok THEN <<GetMetaData(ds, relative_path).meta_data>>
  ELSE <<>>

\* The store after the step.
DSAfter == [env |-> store', chunks |-> chunks', log |-> <<>>]

\* C26: after AddNote(p, n) has succeeded, GetNotes(p) returns the notes p
\* had followed by n, the entry of p is otherwise what it was, and every
\* other entry of the parent's listing is what it was.
C26_AddNoteAppends ==
  [][(last' # last /\ last'.op = "AddNote" /\ last'.ok) =>
       /\ GetNotes(DS, last'.path).ok
       /\ GetNotes(DSAfter, last'.path).ok
       /\ GetNotes(DSAfter, last'.path).notes
            = Append(GetNotes(DS, last'.path).notes, last'.handle[1].note)
       /\ [GetMetaData(DSAfter, last'.path).meta_data EXCEPT !.notes = <<>>]
            = [GetMetaData(DS, last'.path).meta_data EXCEPT !.notes = <<>>]
       /\ \A name \in Names \cup {relative_root_} :
            name # filename(last'.path) =>
              EntryOf(DSAfter, parent_path(last'.path) \o <<name>>)
                = EntryOf(DS, parent_path(last'.path) \o <<name>>)]_vars

\* A second note has been added to an entry that has a sibling.
C26_Witness ==
  /\ last.op = "AddNote"
  /\ last.ok
  /\ Len(last.path) > 1
  /\ Len(GetNotes(DS, last.path).notes) = 2
  /\ GetNotes(DS, last.path).notes[1] # GetNotes(DS, last.path).notes[2]
  /\ \E name \in Names : name # filename(last.path)
                         /\ GetMetaData(DS, parent_path(last.path) \o <<name>>).ok

\* ------------------------------------------------------- file transfers
\* GetDataMap is called.
CallGetDataMap(relative_path) ==
  /\ \E r \in {GetDataMap(DS, relative_path)} :
       last' = [NoCall EXCEPT !.op = "GetDataMap", !.ok = r.ok, !.path = relative_path,
                              !.err = IF r.ok THEN "" ELSE r.err,
                              !.handle = IF r.ok THEN <<r.serialised_data_map>> ELSE <<>>]
  /\ UNCHANGED <<store, chunks, posix, packets, handler, contexts, drive, threads>>

\* InsertDataMap is called with what GetDataMap returned for another path.
CallInsertDataMap(from, relative_path, undefined) ==
  /\ GetDataMap(DS, from).ok
  /\ \E r \in {InsertDataMap(DS, relative_path, GetDataMap(DS, from).serialised_data_map,
                             undefined)} :
       /\ store' = r.ds.env
       /\ chunks' = r.ds.chunks
       /\ last' = [NoCall EXCEPT !.op = "InsertDataMap", !.ok = r.ok,
                                 !.path = from, !.new_path = relative_path,
                                 !.err = IF r.ok THEN "" ELSE r.err]
  /\ UNCHANGED <<posix, packets, handler, contexts, drive, threads>>

NextTransfer ==
  \/ /\ Cardinality(FileEntries(DS)) < MaxFiles
     /\ \E p \in CallPaths, content \in FileContents : CallAddFile(p, content)
  \/ \E id \in FreshDirectoryId(DS) : \E p \in CallPaths : CallAddDirectory(p, id)
  \/ \E p \in Paths \cup {<<>>} : CallGetDataMap(p)
  \/ /\ Cardinality(FileEntries(DS)) < MaxFiles
     /\ \E p \in CallPaths, q \in CallPaths \cup {<<>>}, undefined \in Undefined :
          CallInsertDataMap(p, q, undefined)

SpecTransfer == Init /\ [][NextTransfer]_vars

\* C27: InsertDataMap(q, GetDataMap(p)) for a file p and a free path q whose
\* parent is a directory creates a file entry at q with the DataMap of p;
\* GetDataMap of a directory fails with invalid_parameter.
C27_DataMapTransfer ==
  [][/\ (/\ last' # last
         /\ last'.op = "InsertDataMap"
         /\ last'.new_path # <<>>
         /\ ~GetMetaData(DS, last'.new_path).ok
         /\ GetFromPath(DS, parent_path(last'.new_path)).ok) =>
          /\ last'.ok
          /\ GetMetaData(DSAfter, last'.new_path).ok
          /\ ~IsDirectory(GetMetaData(DSAfter, last'.new_path).meta_data)
          /\ GetMetaData(DSAfter, last'.new_path).meta_data.data_map
               = GetMetaData(DS, last'.path).meta_data.data_map
     /\ (/\ last' # last
         /\ last'.op = "GetDataMap"
         /\ GetMetaData(DS, last'.path).ok
         /\ IsDirectory(GetMetaData(DS, last'.path).meta_data)) =>
          /\ ~last'.ok
          /\ last'.err = "invalid_parameter"]_vars

\* ------------------------------------------------------ concurrent calls
\* The public calls two threads of the host make at the same time.
Calls ==
  {[op |-> "AddNote", path |-> p, meta_data |-> <<>>, note |-> note] :
     p \in ShallowPaths, note \in Notes}
  \cup {[op |-> "AddFile", path |-> p,
         meta_data |-> <<FileMeta(filename(p), content)>>, note |-> ""] :
          p \in ShallowPaths, content \in FileContents}
  \cup {[op |-> "RemoveFile", path |-> p, meta_data |-> <<>>, note |-> ""] :
          p \in ShallowPaths}

\* std::lock_guard<std::mutex> guard(api_mutex_): AddNote takes it; AddFile,
\* RemoveFile, RenameFile and UpdateParent do not.
TakesApiMutex(call) == call.op = "AddNote"

\* The call, run on the data store as the thread has read it.
Run(call, ds) ==
  IF call.op = "AddNote" THEN AddNote(ds, call.path, call.note)
  ELSE IF call.op = "AddFile" THEN AddFile(ds, call.path, call.meta_data[1])
  ELSE RemoveFile(ds, call.path)

\* The store a call leaves when nothing else runs while it does.
Alone(call, env) == Run(call, [env |-> env, chunks |-> chunks, log |-> <<>>]).ds.env

\* The Put and Delete calls of a log, made on the store as it is now.
RECURSIVE ApplyLog(_, _)
ApplyLog(env, log) ==
  IF log = <<>> THEN env
  ELSE ApplyLog(IF log[1].op = "Put"
                THEN [k \in (DOMAIN env) \cup {log[1].key} |->
                        IF k = log[1].key THEN log[1].blob[1] ELSE env[k]]
                ELSE [k \in (DOMAIN env) \ {log[1].key} |-> env[k]],
                Tail(log))

\* A thread inside a call, having read the listings the call reads;
\* overlapped are the calls of other threads that returned since.
Inside(call) ==
  [pc |-> "inside", call |-> call.op, waited |-> 0, result |-> FALSE, args |-> call,
   read |-> [env |-> store, chunks |-> chunks, log |-> <<>>], overlapped |-> <<>>]

\* Thread t enters a call and reads the listings on the path: a call that
\* takes api_mutex_ waits for the thread that holds it.
Begin(t, call) ==
  /\ threads[t].pc = "idle"
  /\ \A u \in Threads \ {t} :
       threads[u].pc = "inside" =>
         /\ ~(TakesApiMutex(call) /\ TakesApiMutex(threads[u].args))
         /\ threads[u].overlapped = <<>>
  /\ call.op = "AddFile" => Cardinality(FileEntries(DS)) < MaxFiles
  /\ call.op = "AddNote" => Cardinality(NotesGiven) < MaxNotes
  /\ threads' = [threads EXCEPT ![t] = Inside(call)]
  /\ last' = [NoCall EXCEPT !.op = "Begin", !.path = call.path,
                            !.handle = <<[thread |-> t, call |-> call.op]>>]
  /\ UNCHANGED <<store, chunks, posix, packets, handler, contexts, drive>>

\* Thread t writes what its call writes and returns.
End(t) ==
  /\ threads[t].pc = "inside"
  /\ \E r \in {Run(threads[t].args, threads[t].read)} :
       /\ store' = ApplyLog(store, r.ds.log)
       /\ chunks' = chunks \ (threads[t].read.chunks \ r.ds.chunks)
       /\ last' = [NoCall EXCEPT !.op = threads[t].call, !.ok = r.ok,
                                 !.path = threads[t].args.path,
                                 !.handle = <<[thread |-> t, call |-> "End"]>>]
  /\ threads' = [u \in Threads |->
                   IF u = t THEN Idle
                   ELSE IF threads[u].pc = "inside"
                   THEN [threads[u] EXCEPT !.overlapped = Append(@, threads[t].args)]
                   ELSE threads[u]]
  /\ UNCHANGED <<posix, packets, handler, contexts, drive>>

NextThreads ==
  \/ \E t \in Threads, call \in Calls : Begin(t, call)
  \/ \E t \in Threads : End(t)

SpecThreads == Init /\ [][NextThreads]_vars

\* The stores that the call of thread t and the call that overlapped it
\* leave in one of the two serial orders.
SerialOrders(t) ==
  {Alone(threads[t].args, store)}
  \cup {Alone(threads[t].overlapped[i], Alone(threads[t].args, threads[t].read.env)) :
          i \in 1..Len(threads[t].overlapped)}

\* C24: when a public call returns, the stored listings are those that the
\* call and the call that ran at the same time leave in some serial order.
C24_SerialOrder ==
  [][\A t \in Threads :
       (threads[t].pc = "inside" /\ threads'[t].pc = "idle") =>
         store' \in SerialOrders(t)]_vars

\* ----------------------------------------------------------- hidden files
\* boost::filesystem::path::extension: the name from its last dot on, if it
\* has one and is neither "." nor "..".
Extension(chars) ==
  IF chars \in {<<".">>, <<".", ".">>} \/ \A i \in 1..Len(chars) : chars[i] # "."
  THEN <<>>
  ELSE SubSeq(chars, CHOOSE i \in 1..Len(chars) :
                       chars[i] = "." /\ \A j \in (i + 1)..Len(chars) : chars[j] # ".",
              Len(chars))

kMsHidden == <<".", "m", "s", "_", "h", "i", "d", "d", "e", "n">>

\* relative_path.extension() == kMsHidden
IsHidden(name) == Extension(FilenameChars(name)) = kMsHidden

\* The children GetChildAndIncrementItr hands out one after the other: the
\* children that are not hidden.
ChildrenToEnumerate(listing) == {c \in listing.children : ~IsHidden(c.name)}

\* GetHiddenChildNames: the names of the hidden children.
GetHiddenChildNames(listing) == {c.name : c \in {d \in listing.children : IsHidden(d.name)}}

\* MatchesMask for "*" and for a mask without wildcards: a regular
\* expression match without regard to case.
MatchesMask(mask, file_name) == mask = "*" \/ Lower(mask) = Lower(file_name)

\* CbFsGetFileInfo without the test of the extension.
GetFileInfoOfAnyName(ds, relative_path) ==
  IF ~GetFileContext(ds, relative_path).ok THEN Throw("ERROR_FILE_NOT_FOUND", ds)
  ELSE [ok |-> TRUE, ds |-> ds, file_exists |-> TRUE]

\* CbFsGetFileInfo
GetFileInfo(ds, relative_path) ==
  IF IsHidden(filename(relative_path)) THEN Throw("ERROR_INVALID_NAME", ds)
  ELSE IF ~GetFileContext(ds, relative_path).ok THEN Throw("ERROR_FILE_NOT_FOUND", ds)
  ELSE [ok |-> TRUE, ds |-> ds, file_exists |-> TRUE]

\* CbFsEnumerateDirectory, called from the restart until no file is found:
\* the names it has handed to the host.
EnumerateDirectory(ds, relative_path, mask) ==
  IF ~GetFromPath(ds, relative_path).ok THEN Throw("ERROR_PATH_NOT_FOUND", ds)
  ELSE [ok |-> TRUE, ds |-> ds,
        names |-> {c.name : c \in {d \in ChildrenToEnumerate(
                                            GetFromPath(ds, relative_path).dir.listing) :
                                      MatchesMask(mask, d.name)}}]

\* DriveInUserSpace::SearchHiddenFiles
SearchHiddenFiles(ds, relative_path) ==
  IF ~GetFromPath(ds, relative_path).ok THEN GetFromPath(ds, relative_path)
  ELSE [ok |-> TRUE, ds |-> ds,
        names |-> GetHiddenChildNames(GetFromPath(ds, relative_path).dir.listing)]

\* WriteHiddenFile once the entry is there: the content is written and the
\* self_encryptor reset, then SetNewAttributes is called on the context.
WriteHiddenFileTo(ds, content, attributes) ==
  IF ~attributes.ok
  THEN [ok |-> FALSE, err |-> attributes.err,
        ds |-> [ds EXCEPT !.chunks = @ \cup content.data_map.chunks]]
  ELSE [ok |-> TRUE, ds |-> [ds EXCEPT !.chunks = @ \cup content.data_map.chunks]]

\* DriveInUserSpace::WriteHiddenFile
WriteHiddenFile(ds, relative_path, content, overwrite_existing, undefined) ==
  IF relative_path = <<>> \/ ~IsHidden(filename(relative_path))
  THEN Throw("invalid_parameter", ds)
  ELSE IF GetMetaData(ds, relative_path).ok /\ overwrite_existing
  THEN WriteHiddenFileTo(
         ds, content,
         SetNewAttributes(FileContext(filename(relative_path),
                                      GetMetaData(ds, relative_path).meta_data, FALSE, FALSE),
                          FALSE, undefined))
  ELSE IF ~AddFile(ds, relative_path, FileMeta(filename(relative_path), EmptyContent)).ok
  THEN AddFile(ds, relative_path, FileMeta(filename(relative_path), EmptyContent))
  ELSE WriteHiddenFileTo(
         AddFile(ds, relative_path, FileMeta(filename(relative_path), EmptyContent)).ds,
         content,
         SetNewAttributes(FileContext(filename(relative_path),
                                      FileMeta(filename(relative_path), EmptyContent),
                                      FALSE, TRUE),
                          FALSE, undefined))

HiddenNames == {"a.ms", "a.ms_hidden"}

HiddenPaths ==
  {<<relative_root_>> \o s : s \in UNION {[1..n -> HiddenNames] : n \in 1..MaxDepth}}

\* What a callback or a call that leaves the store alone returned.
Looked(op, relative_path, mask, r) ==
  /\ last' = [NoCall EXCEPT !.op = op, !.ok = r.ok, !.path = relative_path,
                            !.err = IF r.ok THEN "" ELSE r.err,
                            !.handle = <<[mask |-> mask,
                                          names |-> IF r.ok THEN r.names ELSE {}]>>]
  /\ UNCHANGED <<store, chunks, posix, packets, handler, contexts, drive, threads>>

CbFsGetFileInfo(relative_path) ==
  \E r \in {GetFileInfo(DS, relative_path)} :
    Looked("GetFileInfo", relative_path, "", [ok |-> r.ok, err |-> IF r.ok THEN "" ELSE r.err,
                                              names |-> {}])

CbFsEnumerateDirectory(relative_path, mask) ==
  Looked("EnumerateDirectory", relative_path, mask, EnumerateDirectory(DS, relative_path, mask))

CallSearchHiddenFiles(relative_path) ==
  Looked("SearchHiddenFiles", relative_path, "", SearchHiddenFiles(DS, relative_path))

CallWriteHiddenFile(relative_path, content, overwrite_existing, undefined) ==
  /\ \E r \in {WriteHiddenFile(DS, relative_path, content, overwrite_existing, undefined)} :
       /\ store' = r.ds.env
       /\ chunks' = r.ds.chunks
       /\ last' = [NoCall EXCEPT !.op = "WriteHiddenFile", !.ok = r.ok,
                                 !.path = relative_path,
                                 !.err = IF r.ok THEN "" ELSE r.err,
                                 !.handle = <<[content |-> content.data_map,
                                               overwrite_existing |-> overwrite_existing]>>]
  /\ UNCHANGED <<posix, packets, handler, contexts, drive, threads>>

NextHidden ==
  \/ /\ Cardinality(FileEntries(DS)) < MaxFiles
     /\ \E p \in HiddenPaths, content \in FileContents : CallAddFile(p, content)
  \/ \E id \in FreshDirectoryId(DS) : \E p \in HiddenPaths : CallAddDirectory(p, id)
  \/ /\ Cardinality(FileEntries(DS)) < MaxFiles
     /\ \E p \in HiddenPaths, content \in FileContents, overwrite_existing \in BOOLEAN,
           undefined \in Undefined :
          CallWriteHiddenFile(p, content, overwrite_existing, undefined)
  \/ \E p \in HiddenPaths : CbFsGetFileInfo(p)
  \/ \E p \in HiddenPaths \cup {<<relative_root_>>}, mask \in HiddenNames \cup {"*"} :
       CbFsEnumerateDirectory(p, mask)
  \/ \E p \in HiddenPaths \cup {<<relative_root_>>} : CallSearchHiddenFiles(p)

SpecHidden == Init /\ [][NextHidden]_vars

\* The names of the files with the hidden extension in the directory.
HiddenFilesOf(ds, relative_path) ==
  {c.name : c \in {d \in GetFromPath(ds, relative_path).dir.listing.children :
                     IsHidden(d.name) /\ ~IsDirectory(d)}}

\* C25: the file-info callback fails for a path whose name ends in
\* .ms_hidden, the enumeration of a directory hands out no such name,
\* whatever the mask, and SearchHiddenFiles of a directory returns the names
\* of all its files that end in .ms_hidden.
C25_HiddenFilesNotExposed ==
  /\ (last.op = "GetFileInfo" /\ IsHidden(filename(last.path))) => ~last.ok
  /\ (last.op = "EnumerateDirectory" /\ last.ok) =>
       /\ \A name \in last.handle[1].names : ~IsHidden(name)
       /\ last.handle[1].names \cap HiddenFilesOf(DS, last.path) = {}
  /\ (last.op = "SearchHiddenFiles" /\ last.ok) =>
       HiddenFilesOf(DS, last.path) \subseteq last.handle[1].names

\* A directory that holds a hidden file and another entry has been
\* enumerated with the mask "*".
C25_Witness ==
  /\ last.op = "EnumerateDirectory"
  /\ last.ok
  /\ last.handle[1].mask = "*"
  /\ last.handle[1].names # {}
  /\ HiddenFilesOf(DS, last.path) # {}

\* ------------------------------------------------- a PutToStorage throws
\* Most writes of one call on the store that a failure is placed at.
MaxWrites == 5

\* The call that returns r when every write succeeds, on a store whose
\* fails-th write of the call throws (0: none does): the writes before it
\* are in the store, and the exception leaves the handler, since no
\* PutToStorage has a handler around it that does not rethrow.  The chunks
\* of a deleted file are deleted after the handler has returned.
PutToStorageThrows(ds, r, fails) ==
  IF fails = 0 \/ ~r.ok THEN r
  ELSE Throw("put_failed",
             [env |-> ApplyLog(ds.env, SubSeq(r.ds.log, 1, fails - 1)),
              chunks |-> ds.chunks,
              log |-> SubSeq(r.ds.log, 1, fails - 1)])

\* The caller's st_ctime and st_mtime are stamped with time() once
\* GetParentAndGrandparent has returned; RenameElement returns before for a
\* rename onto the same path.
Stamped(ds, old_relative_path, new_relative_path) ==
  /\ posix
  /\ old_relative_path # new_relative_path
  /\ GetParentAndGrandparent(ds, old_relative_path).ok
  /\ parent_path(old_relative_path) # parent_path(new_relative_path)
       => GetParentAndGrandparent(ds, new_relative_path).ok

\* What the caller's MetaData holds as st_ctime and st_mtime after
\* RenameElement: "old" is the pair of before the call, "now" the time() of
\* the call.  The catch that puts the old pair back is around GetChild of a
\* name HasChild has found, which does not throw.
TimesAfter(ds, old_relative_path, new_relative_path) ==
  IF Stamped(ds, old_relative_path, new_relative_path) THEN "now" ELSE "old"

\* RenameDifferentParent: what the call adds to st_nlink of the entry of the
\* old parent and of the new parent in the stored listings of their parents.
\* old_parent_meta_data goes into the old grandparent's listing by
\* UpdateChild; new_parent_meta_data is incremented and handed to no listing.
NlinkStored(meta_data, opg) ==
  [old_parent |-> IF posix /\ IsDirectory(meta_data)
                     /\ HasChild(opg.grandparent.listing, opg.parent_meta_data.name)
                  THEN 0 - 1 ELSE 0,
   new_parent |-> 0]

NlinkAfter(ds, old_relative_path, new_relative_path, meta_data) ==
  IF /\ old_relative_path # new_relative_path
     /\ parent_path(old_relative_path) # parent_path(new_relative_path)
     /\ GetParentAndGrandparent(ds, old_relative_path).ok
  THEN NlinkStored(meta_data, GetParentAndGrandparent(ds, old_relative_path))
  ELSE [old_parent |-> 0, new_parent |-> 0]

\* A call returns or throws: the store is as the writes made have left it.
\* handle holds the write that threw and its key, and after a rename the
\* caller's times and the st_nlink changes stored.  The calls are followed
\* up to the first write that throws.
ReturnedOrThrown(op, relative_path, new_relative_path, meta_data, r, fails) ==
  /\ last.err # "put_failed"
  /\ IF fails = 0 THEN TRUE
     ELSE r.ok /\ fails <= Len(r.ds.log) /\ r.ds.log[fails].op = "Put"
  /\ \E thrown \in {PutToStorageThrows(DS, r, fails)} :
       /\ store' = thrown.ds.env
       /\ chunks' = IF thrown.ok THEN thrown.ds.chunks ELSE chunks
       /\ last' = [NoCall EXCEPT
                     !.op = op, !.ok = thrown.ok, !.path = relative_path,
                     !.new_path = new_relative_path, !.meta_data = <<meta_data>>,
                     !.err = IF thrown.ok THEN "" ELSE thrown.err,
                     !.log = [i \in 1..Len(thrown.ds.log) |->
                                <<thrown.ds.log[i].op, thrown.ds.log[i].key>>],
                     !.handle =
                       <<[fails |-> fails,
                          key |-> IF fails = 0 THEN <<>> ELSE <<r.ds.log[fails].key>>,
                          times |-> IF op = "RenameFile"
                                    THEN TimesAfter(DS, relative_path, new_relative_path)
                                    ELSE "old",
                          nlink |-> IF op = "RenameFile"
                                    THEN NlinkAfter(DS, relative_path, new_relative_path,
                                                    meta_data)
                                    ELSE [old_parent |-> 0, new_parent |-> 0]]>>]
  /\ UNCHANGED <<posix, packets, handler, contexts, drive, threads>>

Writes == 0..MaxWrites

NextThrows ==
  \/ /\ Cardinality(FileEntries(DS)) < MaxFiles
     /\ \E p \in CallPaths, content \in FileContents :
          \E r \in {AddFile(DS, p, FileMeta(filename(p), content))} :
            \E fails \in Writes :
              ReturnedOrThrown("AddFile", p, <<>>, FileMeta(filename(p), content), r, fails)
  \/ \E id \in FreshDirectoryId(DS) : \E p \in CallPaths :
       \E r \in {AddFile(DS, p, DirectoryMeta(filename(p), id))} :
         \E fails \in Writes :
           ReturnedOrThrown("AddFile", p, <<>>, DirectoryMeta(filename(p), id), r, fails)
  \/ \E p \in CallPaths :
       /\ CanBeDeleted(GetMetaData(DS, p), GetFromPath(DS, p))
       /\ \E r \in {RemoveFile(DS, p)} :
            \E fails \in Writes :
              ReturnedOrThrown("RemoveFile", p, <<>>, GetMetaData(DS, p).meta_data, r, fails)
  \/ \E p \in CallPaths :
       \E found \in {GetMetaData(DS, p)} :
         /\ found.ok
         /\ \E q \in CallPaths :
              /\ HostAllowsRename(DS, p, q, found.meta_data)
              /\ \E r \in {RenameFile(DS, p, q, found.meta_data, 0)} :
                   \E fails \in Writes :
                     ReturnedOrThrown("RenameFile", p, q, found.meta_data, r, fails)

SpecThrows == Init /\ [][NextThrows]_vars

\* The DirectoryIds of the listings a call changes a child of.
ParentsOf(ds, op, relative_path, new_relative_path) ==
  {GetParentAndGrandparent(ds, relative_path).parent.listing.directory_id}
  \cup IF op = "RenameFile" /\ GetParentAndGrandparent(ds, new_relative_path).ok
       THEN {GetParentAndGrandparent(ds, new_relative_path).parent.listing.directory_id}
       ELSE {}

\* The write that throws is the PutToStorage of the grandparent's listing,
\* and the listing of each parent has been put before it.
GrandparentPutThrows ==
  /\ last' # last
  /\ last'.op \in {"AddFile", "RemoveFile", "RenameFile"}
  /\ last'.handle[1].fails > 0
  /\ GetParentAndGrandparent(DS, last'.path).ok
  /\ last'.handle[1].key =
       <<GetParentAndGrandparent(DS, last'.path).grandparent.listing.directory_id>>
  /\ \A p \in ParentsOf(DS, last'.op, last'.path, last'.new_path) :
       \E m \in 1..Len(last'.log) : last'.log[m] = <<"Put", p>>

\* C28: when the PutToStorage of the grandparent's listing throws after the
\* parent's listing has been put, AddElement, DeleteElement and
\* RenameElement return without an exception, and the stored listing of
\* each parent is the changed one.
C28_GrandparentFailureSwallowed ==
  [][GrandparentPutThrows =>
       /\ last'.ok
       /\ \A p \in ParentsOf(DS, last'.op, last'.path, last'.new_path) :
            store'[p] # store[p]]_vars

\* C29: on POSIX, when RenameElement throws after it has stamped the
\* caller's MetaData, the caller's MetaData holds the st_ctime and st_mtime
\* it had before the call.
C29_TimesRestoredOnFailure ==
  [][(/\ last' # last
      /\ last'.op = "RenameFile"
      /\ ~last'.ok
      /\ Stamped(DS, last'.path, last'.new_path))
     => last'.handle[1].times = "old"]_vars

\* The directory a cross-parent rename has moved, with the ids of the old
\* and the new parent and of their parents.
DirectoryMoved ==
  /\ last' # last
  /\ last'.op = "RenameFile"
  /\ last'.ok
  /\ posix
  /\ parent_path(last'.path) # parent_path(last'.new_path)
  /\ IsDirectory(last'.meta_data[1])

PutAfter(log, key, parents) ==
  \E n \in 1..Len(log) :
    /\ log[n] = <<"Put", key>>
    /\ \A p \in parents : \E m \in 1..(n - 1) : log[m] = <<"Put", p>>

\* C30: on POSIX, a cross-parent rename of a directory that has returned
\* has taken one from st_nlink of the old parent's entry and added one to
\* st_nlink of the new parent's entry in the stored listings of their
\* parents, and has put both of these listings after the listings of the
\* old and the new parent.
C30_NlinkOfBothParents ==
  [][DirectoryMoved =>
       LET opg == GetParentAndGrandparent(DS, last'.path)
           npg == GetParentAndGrandparent(DS, last'.new_path)
           parents == {opg.parent.listing.directory_id, npg.parent.listing.directory_id}
       IN /\ last'.handle[1].nlink = [old_parent |-> 0 - 1, new_parent |-> 1]
          /\ PutAfter(last'.log, opg.grandparent.listing.directory_id, parents)
          /\ PutAfter(last'.log, npg.grandparent.listing.directory_id, parents)]_vars

\* ------------------------------------------ loading a stored directory
\* The DirectoryIds of the envelopes a data store holds when the handler
\* is given it.
LoadIds == {kRootDirectoryId, kRootDirectoryId + 1, kRootDirectoryId + 2}

\* An envelope as PutToStorage makes it, of an empty listing: encrypted
\* under (parent_id, directory_id), the serialised listing carrying id.
Envelope(parent_id, directory_id, id) ==
  [parent_id |-> parent_id, directory_id |-> directory_id,
   data_map |-> [chunks |-> {},
                 content |-> SerialiseListing(NewListing(id))]]

\* The data store is handed to the handler by its owner, and what it holds
\* under a DirectoryId is what comes back from Get: every envelope under its
\* own name, of any listing.
StoresToLoad ==
  UNION {{f \in [K -> {Envelope(p, d, id) : p \in LoadIds, d \in K, id \in LoadIds}] :
            \A k \in K : f[k].directory_id = k} : K \in SUBSET LoadIds}

\* RetrieveFromStorage with its last statement before the return,
\* assert(directory.listing->directory_id() == directory_id): the process is
\* aborted where assertions are compiled in, and with NDEBUG the statement
\* is none.
RetrieveFromStorageAsserted(ds, parent_id, directory_id, ndebug) ==
  IF ~RetrieveFromStorage(ds, parent_id, directory_id).ok
  THEN RetrieveFromStorage(ds, parent_id, directory_id)
  ELSE IF ~ndebug /\ RetrieveFromStorage(ds, parent_id, directory_id)
                       .dir.listing.directory_id # directory_id
  THEN Throw("aborted", ds)
  ELSE RetrieveFromStorage(ds, parent_id, directory_id)

InitLoad ==
  /\ posix \in BOOLEAN
  /\ store \in StoresToLoad
  /\ chunks = {}
  /\ packets = <<>>
  /\ handler = <<>>
  /\ contexts = NoContexts
  /\ drive = DriveInUserSpace
  /\ threads = NoThreads
  /\ last = NoCall

\* handle holds the ids asked for, the build, and the id of the listing
\* returned.
CallRetrieveFromStorage(parent_id, directory_id, ndebug) ==
  /\ \E r \in {RetrieveFromStorageAsserted(DS, parent_id, directory_id, ndebug)} :
       last' = [NoCall EXCEPT
                  !.op = "RetrieveFromStorage", !.ok = r.ok,
                  !.err = IF r.ok THEN "" ELSE r.err,
                  !.handle = <<[parent_id |-> parent_id, directory_id |-> directory_id,
                                ndebug |-> ndebug,
                                listing |-> IF r.ok THEN <<r.dir.listing.directory_id>>
                                            ELSE <<>>]>>]
  /\ UNCHANGED <<store, chunks, posix, packets, handler, contexts, drive, threads>>

NextLoad ==
  \E parent_id \in LoadIds, directory_id \in LoadIds, ndebug \in BOOLEAN :
    CallRetrieveFromStorage(parent_id, directory_id, ndebug)

SpecLoad == InitLoad /\ [][NextLoad]_vars

\* The envelope under directory_id decrypts under the ids asked for and its
\* listing carries another id.
OtherListingStored(parent_id, directory_id) ==
  /\ directory_id \in DOMAIN store
  /\ Decrypts(store[directory_id], parent_id, directory_id)
  /\ ParseListing(store[directory_id].data_map.content).directory_id # directory_id

\* C31: in every build, RetrieveFromStorage(parent_id, directory_id) throws
\* a parsing error when the listing parsed from the stored envelope carries
\* an id other than directory_id, and it never returns a listing whose id
\* is not directory_id.
C31_LoadChecksListingId ==
  (last.op = "RetrieveFromStorage" =>
     /\ OtherListingStored(last.handle[1].parent_id, last.handle[1].directory_id)
          => (~last.ok /\ last.err = "parsing_error")
     /\ last.ok => last.handle[1].listing = <<last.handle[1].directory_id>>)

\* ------------------------------------------- deleting what is not there
\* RemoveFile of any path: the host's delete of a path that resolves (only
\* an empty directory), and a delete of one that does not.  handle holds
\* whether the path resolved before the call and whether the call before
\* was a RemoveFile of the same path that returned.
CallRemoveFileOfAnyPath(relative_path) ==
  /\ IF GetMetaData(DS, relative_path).ok
     THEN CanBeDeleted(GetMetaData(DS, relative_path), GetFromPath(DS, relative_path))
     ELSE TRUE
  /\ \E r \in {RemoveFile(DS, relative_path)} :
       /\ store' = r.ds.env
       /\ chunks' = r.ds.chunks
       /\ last' = [NoCall EXCEPT
                     !.op = "RemoveFile", !.ok = r.ok, !.path = relative_path,
                     !.err = IF r.ok THEN "" ELSE r.err,
                     !.log = [i \in 1..Len(r.ds.log) |->
                                <<r.ds.log[i].op, r.ds.log[i].key>>],
                     !.handle =
                       <<[existed |-> GetMetaData(DS, relative_path).ok,
                          again |-> /\ last.op = "RemoveFile"
                                    /\ last.ok
                                    /\ last.path = relative_path]>>]
  /\ UNCHANGED <<posix, packets, handler, contexts, drive, threads>>

NextDelete ==
  \/ /\ Cardinality(FileEntries(DS)) < MaxFiles
     /\ \E p \in CallPaths, content \in FileContents : CallAddFile(p, content)
  \/ \E id \in FreshDirectoryId(DS) : \E p \in CallPaths : CallAddDirectory(p, id)
  \/ \E p \in CallPaths : CallRemoveFileOfAnyPath(p)

SpecDelete == Init /\ [][NextDelete]_vars

\* RemoveFile has been called with a path that did not resolve.
RemoveOfMissing ==
  /\ last' # last
  /\ last'.op = "RemoveFile"
  /\ ~last'.handle[1].existed

NothingWritten ==
  /\ last'.log = <<>>
  /\ store' = store
  /\ chunks' = chunks

\* A path above the path resolves to a file.
AncestorIsFile(ds, relative_path) ==
  \E n \in 2..(Len(relative_path) - 1) :
    /\ GetMetaData(ds, SubSeq(relative_path, 1, n)).ok
    /\ ~IsDirectory(GetMetaData(ds, SubSeq(relative_path, 1, n)).meta_data)

\* C32 as stated: RemoveFile of a path that does not exist throws not_found
\* before anything is written: nothing is put or deleted and the store is
\* unchanged.
C32_DeleteMissingNotFound ==
  [][RemoveOfMissing =>
       /\ ~last'.ok
       /\ last'.err = "not_found"
       /\ NothingWritten]_vars

\* C32, amended: RemoveFile of a path that does not exist throws before
\* anything is written, invalid_parameter when a path above it names a
\* file and not_found otherwise; nothing is put or deleted and the store is
\* unchanged, and a RemoveFile of the path a RemoveFile has just removed is
\* such a call.
C32_DeleteMissingFails ==
  [][/\ RemoveOfMissing =>
          /\ ~last'.ok
          /\ last'.err = IF AncestorIsFile(DS, last'.path)
                         THEN "invalid_parameter" ELSE "not_found"
          /\ NothingWritten
     /\ (last' # last /\ last'.op = "RemoveFile" /\ last'.handle[1].again)
          => ~last'.handle[1].existed]_vars

\* A RemoveFile of the path the call before has removed has thrown.
C32_Witness ==
  /\ last.op = "RemoveFile"
  /\ ~last.ok
  /\ last.handle[1].again
  /\ last.err = "not_found"

\* --------------------------------------------- a rename to another case
\* RenameFile throws: its caller sees the exception, and reclaimed_space is
\* what the call has left in the caller's variable.
CallRenameFileThrows(old_relative_path, new_relative_path, meta_data, before) ==
  /\ \E r \in {RenameFile(DS, old_relative_path, new_relative_path, meta_data, before)} :
       /\ ~r.ok
       /\ store' = r.ds.env
       /\ chunks' = r.ds.chunks
       /\ last' = [NoCall EXCEPT
                     !.op = "RenameFile", !.ok = FALSE, !.err = r.err,
                     !.path = old_relative_path, !.new_path = new_relative_path,
                     !.meta_data = <<meta_data>>,
                     !.reclaimed_space = r.reclaimed_space,
                     !.log = [i \in 1..Len(r.ds.log) |->
                                <<r.ds.log[i].op, r.ds.log[i].key>>]]
  /\ UNCHANGED <<posix, packets, handler, contexts, drive, threads>>

NextRecase ==
  \/ NextCase
  \/ \E p \in CasePaths :
       \E found \in {GetMetaData(DS, p)} :
         /\ found.ok
         /\ \E q \in CasePaths :
              /\ p # q
              /\ ~IsPrefixWithoutCase(p, q)
              /\ ~IsPrefixWithoutCase(q, p)
              /\ HostAllowsRename(DS, p, q, found.meta_data)
              /\ CallRenameFileThrows(p, q, found.meta_data, 0)

SpecRecase == Init /\ [][NextRecase]_vars

\* RenameFile has been called with a new path that differs from the old
\* one in the case of the name only.
RenamedToOtherCase ==
  /\ last' # last
  /\ last'.op = "RenameFile"
  /\ last'.path # last'.new_path
  /\ parent_path(last'.path) = parent_path(last'.new_path)
  /\ SameName(filename(last'.path), filename(last'.new_path))

\* C33: a same-parent rename of an entry to a name that differs from its
\* own in case only returns, the entry is stored under the new name with
\* its DataMap or DirectoryId, every other child of the parent is stored as
\* before, and reclaimed_space is 0 as before the call.
C33_RenameToOtherCase ==
  [][RenamedToOtherCase =>
       LET parent == GetFromPath(DS, parent_path(last'.path)).dir.listing.directory_id
           entry == last'.meta_data[1]
       IN /\ last'.ok
          /\ last'.reclaimed_space = 0
          /\ \E c \in StoredChildren(store', parent) :
               /\ c.name = filename(last'.new_path)
               /\ c.data_map = entry.data_map
               /\ c.directory_id = entry.directory_id
          /\ {c \in StoredChildren(store', parent) :
                ~SameName(c.name, filename(last'.path))}
             = {c \in StoredChildren(store, parent) :
                ~SameName(c.name, filename(last'.path))}]_vars

\* ------------------------------------------------ serialise, then parse
\* The sizes an open file's MetaData holds: on Windows CbFsSetAllocationSize
\* sets allocation_size and leaves end_of_file, and CbFsSetEndOfFile sets
\* allocation_size also when TruncateFile has failed and end_of_file stays.
Sizes == {0, 3, 10}

\* The MetaData values a listing is given to serialise: files with the
\* sizes the callbacks leave, directories as MetaData(name, true) makes
\* them, with the notes AddNote has appended.
MetaDatas ==
  {[FileMeta(name, content) EXCEPT !.size = size,
                                   !.alloc = IF posix THEN 0 ELSE alloc,
                                   !.notes = notes] :
     name \in Names, content \in FileContents, size \in Sizes, alloc \in Sizes,
     notes \in {<<>>, <<"n">>, <<"n", "m">>}}
  \cup {[DirectoryMeta(name, id) EXCEPT !.notes = notes] :
          name \in Names, id \in NewDirectoryIds,
          notes \in {<<>>, <<"n">>, <<"n", "m">>}}

\* A MetaData is serialised and the bytes are parsed: meta_data is the
\* value serialised, displaced the value parsed.
CallSerialiseParse(meta_data) ==
  /\ \E r \in {MetaDataParse(Serialise(meta_data))} :
       last' = [NoCall EXCEPT !.op = "SerialiseParse", !.ok = r.ok,
                              !.err = IF r.ok THEN "" ELSE r.err,
                              !.meta_data = <<meta_data>>,
                              !.displaced = IF r.ok THEN <<r.meta_data>> ELSE <<>>]
  /\ UNCHANGED <<store, chunks, posix, packets, handler, contexts, drive, threads>>

NextRoundTrip == \E meta_data \in MetaDatas : CallSerialiseParse(meta_data)

SpecRoundTrip == Init /\ [][NextRoundTrip]_vars

\* C34: for a MetaData with exactly one of data_map and directory_id,
\* parsing what Serialise returns gives a MetaData equal to it in name,
\* data_map, directory_id, notes and sizes.
C34_ParseOfSerialise ==
  (last.op = "SerialiseParse" /\ ExactlyOne(last.meta_data[1])) =>
    /\ last.ok
    /\ last.displaced = last.meta_data

\* ------------------------------------- a bootstrap that fails or is cut
\* The constructor on a store whose Get(mid_name) throws whatever the store
\* holds (get_throws), and on one whose Get throws only for a name it does
\* not hold: catch(...) takes every exception for a first run.
DirectoryListingHandlerGet(ds, pk, keyword, pin, password, get_throws) ==
  IF get_throws \/ GenerateName(keyword, pin) \notin DOMAIN pk
  THEN FirstRun(ds, pk, keyword, pin, password,
                [unique_user_id_ |-> unique_user_id_, root_parent_id_ |-> root_parent_id_,
                 maid_ |-> kMaid])
  ELSE Recovery(ds, pk, keyword, pin, password)

\* The writes of the first run, in their order: Put of the TMID, Put of the
\* MID, PutToStorage of the root-parent listing, PutToStorage of the root
\* listing.
FirstRunWrites == 4

\* One store holds one account: a constructor is given the keyword and the
\* pin of the packets the store holds.
SameAccount(keyword, pin) ==
  \A n \in DOMAIN packets :
    IF n[1] = "tmid" THEN packets[n].encrypted_session.key[1] = keyword
                          /\ packets[n].encrypted_session.key[2] = pin
    ELSE n = GenerateName(keyword, pin)

ConstructGet(keyword, pin, password, get_throws) ==
  /\ handler = <<>>
  /\ SameAccount(keyword, pin)
  /\ \E c \in {DirectoryListingHandlerGet(DS, packets, keyword, pin, password,
                                          get_throws)} :
       /\ store' = c.ds.env
       /\ chunks' = c.ds.chunks
       /\ packets' = c.packets
       /\ handler' = IF c.ok THEN <<c.handler>> ELSE <<>>
       /\ last' = [NoCall EXCEPT !.op = "Construct", !.ok = c.ok, !.log = c.log,
                                 !.credentials = <<keyword, pin, password>>,
                                 !.first_run = c.first_run,
                                 !.handle = <<[get_throws |-> get_throws]>>]
  /\ UNCHANGED <<posix, contexts, drive, threads>>

\* The process ends inside the first run of the constructor, after the
\* first written of its writes: what they have put is in the store, and
\* there is no handler.
ConstructCutOff(keyword, pin, password, written) ==
  /\ handler = <<>>
  /\ SameAccount(keyword, pin)
  /\ GenerateName(keyword, pin) \notin DOMAIN packets
  /\ \E c \in {DirectoryListingHandlerGet(DS, packets, keyword, pin, password, FALSE)} :
       /\ c.ok /\ c.first_run
       /\ packets' = [n \in (DOMAIN packets)
                              \cup {c.log[i][2] : i \in 1..(IF written < 2 THEN written ELSE 2)}
                        |-> c.packets[n]]
       /\ store' = ApplyLog(store, SubSeq(c.ds.log, 1, IF written > 2 THEN written - 2 ELSE 0))
       /\ last' = [NoCall EXCEPT !.op = "CutOff", !.ok = FALSE,
                                 !.log = SubSeq(c.log, 1, written),
                                 !.credentials = <<keyword, pin, password>>,
                                 !.first_run = TRUE]
  /\ UNCHANGED <<chunks, handler, posix, contexts, drive, threads>>

NextCutOff ==
  \/ \E keyword \in Keywords, pin \in Pins, password \in Passwords, get_throws \in BOOLEAN :
       ConstructGet(keyword, pin, password, get_throws)
  \/ \E keyword \in Keywords, pin \in Pins, password \in Passwords,
        written \in 1..(FirstRunWrites - 1) :
       ConstructCutOff(keyword, pin, password, written)
  \/ Destroy
  \/ /\ handler # <<>>
     /\ Cardinality(FileEntries(DS)) < MaxFiles
     /\ \E p \in CallPaths, content \in FileContents : CallAddFile(p, content)
  \/ /\ handler # <<>>
     /\ \E id \in FreshDirectoryId(DS) : \E p \in CallPaths : CallAddDirectory(p, id)

SpecCutOff == InitBoot /\ [][NextCutOff]_vars

\* C35: a constructor given the keyword and pin of a MID the store holds
\* does not take the first-run branch, whatever Get(mid_name) does: it puts
\* no packet and no envelope, and the MID, the TMID and the stored listings
\* are as before.
C35_FirstRunOnlyWithoutMid ==
  [][(/\ last' # last
      /\ last'.op = "Construct"
      /\ GenerateName(last'.credentials[1], last'.credentials[2]) \in DOMAIN packets)
     => /\ ~last'.first_run
        /\ last'.log = <<>>
        /\ packets' = packets
        /\ store' = store]_vars

\* C36: while the store holds the MID, it holds the root-parent envelope
\* and the envelope of the root the root-parent listing names, and on a
\* handler constructed from it GetFromPath("/") succeeds.
C36_MidImpliesRoot ==
  (\E n \in DOMAIN packets : n[1] = "mid") =>
    /\ root_parent_id_ \in DOMAIN store
    /\ \A c \in StoredChildren(store, root_parent_id_) :
         c.directory_id[1] \in DOMAIN store
    /\ handler # <<>> => GetFromPath(DS, <<relative_root_>>).ok

\* -------------------------------------------- chunks of the other files
\* The chunks the DataMaps of the files in the stored listings name.
ChunksOfFiles(env) ==
  UNION {UNION {c.data_map[1].chunks : c \in {x \in StoredChildren(env, k) :
                                               x.directory_id = <<>>}} :
           k \in DOMAIN env}

\* C37: after RemoveFile has returned, every chunk that a file still in
\* the stored listings names, and that was in the store before the call,
\* is in the store.
C37_ChunksOfOtherFilesKept ==
  [][(last' # last /\ last'.op = "RemoveFile" /\ last'.ok) =>
       (ChunksOfFiles(store') \cap chunks) \subseteq chunks']_vars

\* ----------------------------- several waiters on one condition variable
\* mount_condition_variable_.notify_one(): one of the threads blocked on
\* the condition variable, if there is one, is woken; which one is the
\* implementation's choice.
NotifyOne(ts) ==
  IF \A t \in Threads : ts[t].pc # "blocked" THEN {ts}
  ELSE {[ts EXCEPT ![t].pc = "notified"] : t \in {u \in Threads : ts[u].pc = "blocked"}}

\* Init and Mount end in SetMountState(true) when the media is mounted.
CallCbfsInitNotifies(create_storage, mount_media) ==
  /\ drive.drive_stage_ = "kUnInitialised"
  /\ \E r \in {CbfsInit(drive, create_storage, mount_media)} :
       /\ drive' = r.drive
       /\ last' = MountCall("CbfsInit", r)
       /\ threads' \in (IF r.ok THEN NotifyOne(threads) ELSE {threads})
  /\ UNCHANGED <<store, chunks, posix, packets, handler, contexts>>

\* Unmount ends in SetMountState(false) unless DeleteStorage threw.
CallUnmountNotifies(failures, delete_storage) ==
  /\ \E r \in {Unmount(drive, failures, delete_storage)} :
       /\ drive' = r.drive
       /\ last' = MountCall("Unmount", r)
       /\ threads' \in (IF r.ok THEN NotifyOne(threads) ELSE {threads})
  /\ UNCHANGED <<store, chunks, posix, packets, handler, contexts>>

\* The host ejects the storage: SetMountState(false).
CbFsOnEjectStorageNotifies ==
  /\ drive.callback_filesystem_.StoragePresent
  /\ drive.drive_stage_ # "kUnMounted"
  /\ drive' = SetMountState(drive, FALSE)
  /\ last' = MountCall("CbFsOnEjectStorage", [ok |-> TRUE, log |-> <<>>])
  /\ threads' \in NotifyOne(threads)
  /\ UNCHANGED <<store, chunks, posix, packets, handler, contexts>>

\* A thread calls WaitUntilMounted or WaitUntilUnMounted: under
\* mount_mutex_ it looks at the predicate, and blocks on the condition
\* variable when the stage is not the one it waits for.
CallWaitOnCondition(t, call) ==
  /\ threads[t].pc \notin {"blocked", "notified"}
  /\ threads' = [threads EXCEPT ![t] =
                   [pc |-> IF Awaited(call) THEN "returned" ELSE "blocked",
                    call |-> call, waited |-> 0, result |-> Awaited(call)]]
  /\ UNCHANGED <<store, chunks, posix, last, packets, handler, contexts, drive>>

\* A woken thread takes mount_mutex_ and looks at its predicate again: it
\* returns when the stage is the one it waits for or, in WaitUntilMounted,
\* when the ten seconds are over, and blocks again otherwise.
Recheck(t) ==
  /\ threads[t].pc = "notified"
  /\ threads' = [threads EXCEPT ![t].pc = IF Awaited(threads[t].call) THEN "returned"
                                          ELSE IF /\ threads[t].call = "WaitUntilMounted"
                                                  /\ threads[t].waited >= kMountedWait
                                          THEN "returned"
                                          ELSE "blocked",
                                ![t].result = Awaited(threads[t].call)]
  /\ UNCHANGED <<store, chunks, posix, last, packets, handler, contexts, drive>>

\* The ten seconds of WaitUntilMounted's timed_wait are over: it returns
\* the predicate as it is then.
TimeOut(t) ==
  /\ threads[t].pc = "blocked"
  /\ threads[t].call = "WaitUntilMounted"
  /\ threads[t].waited >= kMountedWait
  /\ threads' = [threads EXCEPT ![t].pc = "returned",
                                ![t].result = Awaited(threads[t].call)]
  /\ UNCHANGED <<store, chunks, posix, last, packets, handler, contexts, drive>>

\* A wait may wake without any notification.
SpuriousWake(t) ==
  /\ threads[t].pc = "blocked"
  /\ threads' = [threads EXCEPT ![t].pc = "notified"]
  /\ UNCHANGED <<store, chunks, posix, last, packets, handler, contexts, drive>>

NextNotify ==
  \/ \E create_storage, mount_media \in BOOLEAN :
       CallCbfsInitNotifies(create_storage, mount_media)
  \/ \E failures \in 0..MaxRetries, delete_storage \in BOOLEAN :
       CallUnmountNotifies(failures, delete_storage)
  \/ CbFsOnEjectStorageNotifies
  \/ \E t \in Threads, call \in {"WaitUntilMounted", "WaitUntilUnMounted"} :
       CallWaitOnCondition(t, call)
  \/ \E t \in Threads : Recheck(t)
  \/ \E t \in Threads : TimeOut(t)
  \/ \E t \in Threads : SpuriousWake(t)
  \/ Tick

\* A woken thread runs, a timed wait that is over returns, and time
\* passes; nothing makes a wait wake without a notification, and nothing
\* makes the drive's owner call again.
SpecNotify ==
  /\ InitMount
  /\ [][NextNotify]_vars
  /\ \A t \in Threads : WF_vars(Recheck(t)) /\ WF_vars(TimeOut(t))
  /\ WF_vars(Tick)

\* Thread t is inside WaitUntilUnMounted.
InWaitUntilUnMounted(t) ==
  /\ threads[t].pc \in {"blocked", "notified"}
  /\ threads[t].call = "WaitUntilUnMounted"

\* C38: a thread inside WaitUntilUnMounted while drive_stage_ is
\* kUnMounted returns, unless the stage changes again, whatever other
\* threads wait on mount_condition_variable_.
C38_UnMountedWaitersReturn ==
  \A t \in Threads :
    (InWaitUntilUnMounted(t) /\ drive.drive_stage_ = "kUnMounted")
      ~> (~InWaitUntilUnMounted(t) \/ drive.drive_stage_ # "kUnMounted")

\* ------------------------------------------------ an AddElement that fails
\* The write that throws in AddElement is the PutToStorage of the new
\* child directory or the PutToStorage of the parent.
ChildOrParentPutThrows ==
  /\ last' # last
  /\ last'.op = "AddFile"
  /\ ~last'.ok
  /\ last'.handle[1].fails > 0
  /\ GetParentAndGrandparent(DS, last'.path).ok
  /\ \/ last'.handle[1].key = last'.meta_data[1].directory_id
     \/ last'.handle[1].key =
          <<GetParentAndGrandparent(DS, last'.path).parent.listing.directory_id>>

\* C39: an AddElement that fails because the put of the child directory
\* or the put of the parent throws leaves the store as it was before the
\* call: the stored parent listing is unchanged and no envelope of the new
\* child directory is in the store.
C39_FailedAddLeavesStore ==
  [][ChildOrParentPutThrows =>
       /\ store' = store
       /\ chunks' = chunks
       /\ \A id \in DOMAIN store' : <<id>> # last'.meta_data[1].directory_id]_vars

\* --------------------------------------------- reading a hidden file back
\* DriveInUserSpace::ReadHiddenFile: the content that the DataMap of the
\* stored entry gives; the DataMap of a directory is a null pointer, and
\* what is read through it is undefined.
ReadHiddenFile(ds, relative_path, undefined) ==
  IF relative_path = <<>> \/ ~IsHidden(filename(relative_path))
  THEN Throw("invalid_parameter", ds)
  ELSE IF ~GetMetaData(ds, relative_path).ok THEN GetMetaData(ds, relative_path)
  ELSE IF IsDirectory(GetMetaData(ds, relative_path).meta_data)
  THEN IF undefined.abort THEN Throw("aborted", ds)
       ELSE [ok |-> TRUE, ds |-> ds, content |-> EmptyContent.data_map]
  ELSE IF ~(GetMetaData(ds, relative_path).meta_data.data_map[1].chunks \subseteq ds.chunks)
  THEN Throw("invalid_parameter", ds)
  ELSE [ok |-> TRUE, ds |-> ds,
        content |-> GetMetaData(ds, relative_path).meta_data.data_map[1]]

CallReadHiddenFile(relative_path, undefined) ==
  /\ \E r \in {ReadHiddenFile(DS, relative_path, undefined)} :
       last' = [NoCall EXCEPT !.op = "ReadHiddenFile", !.ok = r.ok,
                              !.path = relative_path,
                              !.err = IF r.ok THEN "" ELSE r.err,
                              !.handle = <<[content |-> IF r.ok THEN r.content
                                                        ELSE EmptyContent.data_map,
                                            written |-> IF /\ last.op = "WriteHiddenFile"
                                                           /\ last.path = relative_path
                                                        THEN <<last.ok>> ELSE <<>>]>>]
  /\ UNCHANGED <<store, chunks, posix, packets, handler, contexts, drive, threads>>

NextHiddenRead ==
  \/ /\ Cardinality(FileEntries(DS)) < MaxFiles
     /\ \E p \in HiddenPaths, content \in FileContents : CallAddFile(p, content)
  \/ \E id \in FreshDirectoryId(DS) : \E p \in HiddenPaths : CallAddDirectory(p, id)
  \/ /\ Cardinality(FileEntries(DS)) < MaxFiles
     /\ \E p \in HiddenPaths, content \in FileContents, overwrite_existing \in BOOLEAN,
           undefined \in Undefined :
          CallWriteHiddenFile(p, content, overwrite_existing, undefined)
  \/ \E p \in HiddenPaths, undefined \in Undefined : CallReadHiddenFile(p, undefined)

SpecHiddenRead == Init /\ [][NextHiddenRead]_vars

\* C40: a ReadHiddenFile of the path that a WriteHiddenFile with
\* overwrite_existing = true has just written successfully returns the
\* content that was written, whether the path existed before or not.
C40_ReadReturnsWritten ==
  [][(/\ last.op = "WriteHiddenFile"
      /\ last.ok
      /\ last.handle[1].overwrite_existing
      /\ last' # last
      /\ last'.op = "ReadHiddenFile"
      /\ last'.path = last.path)
     => /\ last'.ok
        /\ last'.handle[1].content = last.handle[1].content]_vars

====
